---- MODULE Spec2Model ----
(***************************************************************************)
(* Model of tools/validate_profile_json.py: the schema validator           *)
(* validate(profile) and the command line main() around it                 *)
(* (read -> parse -> validate -> exit code).                               *)
(*                                                                         *)
(* JSON values are tagged records, one field name per Python type:         *)
(*   None  [t |-> "null"]            bool  [t |-> "bool", b |-> ...]        *)
(*   int   [t |-> "num", n |-> ...]  str   [t |-> "str",  s |-> chars]      *)
(*   list  [t |-> "arr", a |-> seq]  dict  [t |-> "obj",  f |-> function]   *)
(* A Python str is the sequence of its characters, so that strip(),        *)
(* lower() and the substring test are computed and not assumed.            *)
(* The messages are the source's f-strings; the en dash of the two range   *)
(* messages is written "-" because the module is ASCII.                    *)
(***************************************************************************)
EXTENDS Integers, Sequences, FiniteSets, TLC

VARIABLES pc, file, raw, profile, errors, exitCode, failure, validateCalls,
          tool, diskOrig, diskPrev, disk, passes, locArg, locRet

\* the patching scripts: the script that runs (tool), profile.json as it was
\* at the start (diskOrig), before the last pass (diskPrev) and now (disk),
\* and the number of passes; a call of _is_localized: argument and result
aux == <<tool, diskOrig, diskPrev, disk, passes, locArg, locRet>>

vars == <<pc, file, raw, profile, errors, exitCode, failure, validateCalls,
          tool, diskOrig, diskPrev, disk, passes, locArg, locRet>>

(***************************************************************************)
(* JSON / Python values                                                    *)
(***************************************************************************)
None == [t |-> "null"]
Bool(b) == [t |-> "bool", b |-> b]
Num(n) == [t |-> "num", n |-> n]
Str(chars) == [t |-> "str", s |-> chars]
Arr(seq) == [t |-> "arr", a |-> seq]
Obj(fn) == [t |-> "obj", f |-> fn]

EmptyMap == [k \in {} |-> None]
EmptyObj == Obj(EmptyMap)

\* isinstance(value, dict / list / str)
IsDict(value) == value.t = "obj"
IsList(value) == value.t = "arr"
IsStr(value) == value.t = "str"
IsNone(value) == value.t = "null"

\* key in d   (d a dict)
HasKey(d, key) == key \in DOMAIN d.f

\* The value an uncaught AttributeError leaves in place of a result:
\* d.get(key) on a value that is not a dict.
AttributeError == [t |-> "AttributeError"]
IsExc(value) == value.t = "AttributeError"

\* d.get(key): None when the key is absent
get(d, key) ==
  IF ~IsDict(d) THEN AttributeError
  ELSE IF key \in DOMAIN d.f THEN d.f[key] ELSE None

\* all(isinstance(x, str) for x in value)
AllStr(value) == \A i \in 1..Len(value.a) : IsStr(value.a[i])

\* isinstance(v, (str, dict))
IsStrOrDict(value) == IsStr(value) \/ IsDict(value)

(***************************************************************************)
(* str methods                                                             *)
(***************************************************************************)
Whitespace == {" ", "\t", "\n", "\r"}

RECURSIVE LStrip(_)
LStrip(chars) ==
  IF chars = <<>> THEN <<>>
  ELSE IF Head(chars) \in Whitespace THEN LStrip(Tail(chars)) ELSE chars

RECURSIVE RStrip(_)
RStrip(chars) ==
  IF chars = <<>> THEN <<>>
  ELSE IF chars[Len(chars)] \in Whitespace
       THEN RStrip(SubSeq(chars, 1, Len(chars) - 1)) ELSE chars

\* str.strip()
strip(chars) == RStrip(LStrip(chars))

UpperLetters == <<"A","B","C","D","E","F","G","H","I","J","K","L","M",
                  "N","O","P","Q","R","S","T","U","V","W","X","Y","Z">>
LowerLetters == <<"a","b","c","d","e","f","g","h","i","j","k","l","m",
                  "n","o","p","q","r","s","t","u","v","w","x","y","z">>

LowerChar(c) ==
  IF \E i \in 1..Len(UpperLetters) : UpperLetters[i] = c
  THEN LowerLetters[CHOOSE i \in 1..Len(UpperLetters) : UpperLetters[i] = c]
  ELSE c

\* lower() left out: the text as it is
lower_identity(chars) == chars

\* str.lower()
lower(chars) == [i \in 1..Len(chars) |-> LowerChar(chars[i])]

\* needle in hay   (both str)
Contains(hay, needle) ==
  \E i \in 0..(Len(hay) - Len(needle)) :
     SubSeq(hay, i + 1, i + Len(needle)) = needle

\* The text of a str inside an f-string
RECURSIVE Text(_)
Text(chars) == IF chars = <<>> THEN "" ELSE Head(chars) \o Text(Tail(chars))

\* Concatenation of a sequence of message lists
RECURSIVE Flatten(_)
Flatten(lists) ==
  IF lists = <<>> THEN <<>> ELSE Head(lists) \o Flatten(Tail(lists))

(***************************************************************************)
(* validate_profile_json.py                                                *)
(***************************************************************************)
\* only the "en" key looked for
_is_localized_enOnly(value) ==
  IsDict(value) /\ HasKey(value, "en")

\* _is_localized(value)
_is_localized(value) ==
  IsDict(value) /\ (HasKey(value, "en") \/ HasKey(value, "it"))

\* The message an uncaught exception stands for in a list of messages.
Traceback == "Traceback (most recent call last)"

RootMsg == "Root JSON value must be an object"
MissingMsg(key) == "Missing required top-level key: " \o key
BmiMsg == "projects must include id=bmi"
EvidenceRangeMsg == "projects[id=bmi].evidence_bullets must have 4-8 items"
EvidenceTypeMsg == "projects[id=bmi].evidence_bullets must be an array of strings"
NoDomomeaMsg == "proof.categories must include a DoMoMEA evidence item"
DuplicateMsg(pid) == "Duplicate projects[].id: " \o Text(pid)
IdMsg(idx) == "projects[" \o ToString(idx) \o "].id must be a non-empty string"
ProjObjMsg(idx) == "projects[" \o ToString(idx) \o "] must be an object"

\* "i18n" dropped from the tuple of line 32
RequiredKeys_noI18n == <<"person", "projects">>

\* lines 32-34
RequiredKeys == <<"person", "i18n", "projects">>

MissingKeyErrs(prof) ==
  Flatten([i \in 1..Len(RequiredKeys) |->
            IF ~HasKey(prof, RequiredKeys[i])
            THEN <<MissingMsg(RequiredKeys[i])>> ELSE <<>>])

\* lines 36-44
Langs == <<"en", "it">>

I18nErrs(prof) ==
  LET i18n == get(prof, "i18n") IN
  IF ~IsNone(i18n) /\ ~IsDict(i18n) THEN <<"i18n must be an object">>
  ELSE IF IsDict(i18n) THEN
    Flatten([i \in 1..Len(Langs) |->
      IF ~HasKey(i18n, Langs[i])
      THEN <<"i18n missing language: " \o Langs[i]>>
      ELSE IF ~IsDict(i18n.f[Langs[i]])
      THEN <<"i18n." \o Langs[i] \o " must be an object">>
      ELSE <<>>])
  ELSE <<>>

\* lines 68-75: one element of projects[idx].contained
ContainedItemErrs(idx, cidx, item) ==
  LET pre == "projects[" \o ToString(idx) \o "].contained["
               \o ToString(cidx) \o "]" IN
  IF ~IsDict(item) THEN <<pre \o " must be an object">>
  ELSE
    (IF ~IsStrOrDict(get(item, "name"))
     THEN <<pre \o ".name must be string or localized object">> ELSE <<>>)
    \o
    (IF HasKey(item, "tagline") /\ ~IsStrOrDict(get(item, "tagline"))
     THEN <<pre \o ".tagline must be string or localized object">> ELSE <<>>)

\* lines 63-75
ContainedErrs(idx, proj) ==
  LET contained == get(proj, "contained") IN
  IF IsExc(contained) THEN <<Traceback>>
  ELSE IF IsNone(contained) THEN <<>>
  ELSE IF ~IsList(contained)
  THEN <<"projects[" \o ToString(idx) \o "].contained must be an array">>
  ELSE Flatten([c \in 1..Len(contained.a) |->
                 ContainedItemErrs(idx, c - 1, contained.a[c])])

SpecLocKeys == <<"boundary", "purpose">>
SpecListKeys == <<"inputs", "outputs", "reuse", "constraints", "current_focus">>

\* lines 77-90
SpecErrs(idx, proj) ==
  LET spec == get(proj, "spec")
      pre == "projects[" \o ToString(idx) \o "].spec" IN
  IF IsExc(spec) THEN <<Traceback>>
  ELSE IF IsNone(spec) THEN <<>>
  ELSE IF ~IsDict(spec) THEN <<pre \o " must be an object">>
  ELSE
    (IF HasKey(spec, "status") /\ ~IsStr(spec.f["status"])
     THEN <<pre \o ".status must be a string">> ELSE <<>>)
    \o
    Flatten([i \in 1..Len(SpecLocKeys) |->
      IF HasKey(spec, SpecLocKeys[i])
         /\ ~(_is_localized(spec.f[SpecLocKeys[i]]) \/ IsStr(spec.f[SpecLocKeys[i]]))
      THEN <<pre \o "." \o SpecLocKeys[i] \o " must be string or localized object">>
      ELSE <<>>])
    \o
    Flatten([i \in 1..Len(SpecListKeys) |->
      IF HasKey(spec, SpecListKeys[i]) /\ ~IsList(spec.f[SpecListKeys[i]])
      THEN <<pre \o "." \o SpecListKeys[i] \o " must be an array">>
      ELSE <<>>])

\* lines 55-61: the id of one project; seen is seen_ids before the project
IdErrs(idx, proj, seen) ==
  LET pid == get(proj, "id") IN
  IF IsExc(pid) THEN <<Traceback>>
  ELSE IF ~IsStr(pid) \/ strip(pid.s) = <<>> THEN <<IdMsg(idx)>>
  ELSE IF pid.s \in seen THEN <<DuplicateMsg(pid.s)>>
  ELSE <<>>

\* seen_ids.add(pid) left out
SeenAfter_noAdd(proj, seen) == seen

\* lines 55-61: seen_ids after the project
SeenAfter(proj, seen) ==
  LET pid == get(proj, "id") IN
  IF IsStr(pid) /\ strip(pid.s) # <<>> THEN seen \cup {pid.s} ELSE seen

\* the isinstance(proj, dict) test and its continue (lines 52-54) left out
ProjectErrs_noGuard(idx, proj, seen) ==
  IdErrs(idx, proj, seen) \o ContainedErrs(idx, proj) \o SpecErrs(idx, proj)

\* lines 52-90: the body of the loop over projects
ProjectErrs(idx, proj, seen) ==
  IF ~IsDict(proj) THEN <<ProjObjMsg(idx)>>
  ELSE IdErrs(idx, proj, seen) \o ContainedErrs(idx, proj) \o SpecErrs(idx, proj)

\* seen_ids before the project at position i (1-based) of the list
RECURSIVE SeenBefore(_, _)
SeenBefore(list, i) ==
  IF i <= 1 THEN {}
  ELSE IF IsDict(list[i - 1])
       THEN SeenAfter(list[i - 1], SeenBefore(list, i - 1))
       ELSE SeenBefore(list, i - 1)

\* lines 46-90
ProjectsErrs(prof) ==
  LET projects == get(prof, "projects") IN
  IF ~IsNone(projects) /\ ~IsList(projects) THEN <<"projects must be an array">>
  ELSE IF IsList(projects) THEN
    Flatten([i \in 1..Len(projects.a) |->
              ProjectErrs(i - 1, projects.a[i], SeenBefore(projects.a, i))])
  ELSE <<>>

ContextsListKeys == <<"direct_work", "operational_exposure">>

\* lines 92-101
ContextsErrs(prof) ==
  LET contexts == get(prof, "contexts") IN
  IF IsNone(contexts) THEN <<>>
  ELSE IF ~IsDict(contexts) THEN <<"contexts must be an object">>
  ELSE
    (IF HasKey(contexts, "disclaimer")
        /\ ~(_is_localized(contexts.f["disclaimer"]) \/ IsStr(contexts.f["disclaimer"]))
     THEN <<"contexts.disclaimer must be string or localized object">> ELSE <<>>)
    \o
    Flatten([i \in 1..Len(ContextsListKeys) |->
      IF HasKey(contexts, ContextsListKeys[i]) /\ ~IsList(contexts.f[ContextsListKeys[i]])
      THEN <<"contexts." \o ContextsListKeys[i] \o " must be an array">>
      ELSE <<>>])

\* lines 103-110
ReadingErrs(prof) ==
  LET reading == get(prof, "reading") IN
  IF IsNone(reading) THEN <<>>
  ELSE IF ~IsDict(reading) THEN <<"reading must be an object">>
  ELSE LET domains == get(reading, "domains") IN
       IF ~IsNone(domains) /\ ~IsList(domains)
       THEN <<"reading.domains must be an array">> ELSE <<>>

\* lines 118-126
required_arrays == <<"research_objective", "architecture_stack", "innovation",
                     "validation_plan", "engineering_challenges",
                     "dissemination", "training_teaching">>

\* lines 112-135
PhdErrs(prof) ==
  LET phd_extract == get(prof, "phd_extract") IN
  IF IsNone(phd_extract) THEN <<MissingMsg("phd_extract")>>
  ELSE IF ~IsDict(phd_extract) THEN <<"phd_extract must be an object">>
  ELSE
    (LET source == get(phd_extract, "source") IN
     IF IsNone(source) \/ ~IsDict(source)
     THEN <<"phd_extract.source must be an object">> ELSE <<>>)
    \o
    Flatten([i \in 1..Len(required_arrays) |->
      LET value == get(phd_extract, required_arrays[i]) IN
      IF IsNone(value)
      THEN <<"phd_extract missing required key: " \o required_arrays[i]>>
      ELSE IF ~IsList(value) \/ ~AllStr(value)
      THEN <<"phd_extract." \o required_arrays[i] \o " must be an array of strings">>
      ELSE <<>>])

Domomea == <<"d", "o", "m", "o", "m", "e", "a">>

\* lines 147-152: does the item go into domomea_items
IsDomomeaItem(item) ==
  /\ IsDict(item)
  /\ LET label == get(item, "label")
         label_en == IF IsDict(label) THEN get(label, "en") ELSE label
     IN IsStr(label_en) /\ Contains(lower(label_en.s), Domomea)

\* lines 141-152: the domomea items of one group, in order
GroupDomomea(group) ==
  IF ~IsDict(group) THEN <<>>
  ELSE LET items == get(group, "items") IN
       IF ~IsList(items) THEN <<>>
       ELSE SelectSeq(items.a, IsDomomeaItem)

\* lines 139-152: domomea_items
DomomeaItems(categories) ==
  Flatten([g \in 1..Len(categories.a) |-> GroupDomomea(categories.a[g])])

BulletsMin == 6
BulletsMax == 10

\* 6 < len(bullets) <= 10: the lower bound made exclusive
InBulletsRange_exclusive(n) == BulletsMin < n /\ n <= BulletsMax

\* line 162: 6 <= len(bullets) <= 10
InBulletsRange(n) == BulletsMin <= n /\ n <= BulletsMax

\* lines 157-165: one matched item; k is idx + 1
DomomeaItemErrs(k, item) ==
  LET bullets == get(item, "bullets")
      pre == "DoMoMEA proof item #" \o ToString(k) IN
  (IF ~IsList(bullets) \/ ~AllStr(bullets)
   THEN <<pre \o " bullets must be an array of strings">>
   ELSE IF ~InBulletsRange(Len(bullets.a))
   THEN <<pre \o " bullets must have 6-10 items">>
   ELSE <<>>)
  \o
  (IF ~IsStrOrDict(get(item, "source"))
   THEN <<pre \o " source must be a string or localized object">> ELSE <<>>)

\* lines 137-165
ProofErrs(prof) ==
  LET proof == get(prof, "proof") IN
  IF IsDict(proof) /\ IsList(get(proof, "categories")) THEN
    LET domomea_items == DomomeaItems(get(proof, "categories")) IN
    IF domomea_items = <<>> THEN <<NoDomomeaMsg>>
    ELSE Flatten([k \in 1..Len(domomea_items) |->
                   DomomeaItemErrs(k, domomea_items[k])])
  ELSE <<>>

\* any project with a string id taken for the "bmi" project
IsBmi_anyId(p) ==
  IsDict(p) /\ IsStr(get(p, "id"))

\* line 168: is p the project the generator expression stops at
IsBmi(p) ==
  IsDict(p) /\ get(p, "id") = Str(<<"b", "m", "i">>)

EvidenceMin == 4
EvidenceMax == 8

\* 4 < len(evidence) <= 8: the lower bound made exclusive
InEvidenceRange_exclusive(n) == EvidenceMin < n /\ n <= EvidenceMax

\* line 176: 4 <= len(evidence) <= 8
InEvidenceRange(n) == EvidenceMin <= n /\ n <= EvidenceMax

\* lines 167-177
BmiErrs(prof) ==
  LET projects == get(prof, "projects") IN
  IF IsList(projects) THEN
    LET hits == SelectSeq(projects.a, IsBmi) IN
    IF hits = <<>> THEN <<BmiMsg>>
    ELSE LET bmi == Head(hits)
             evidence == get(bmi, "evidence_bullets") IN
         IF IsNone(evidence) THEN <<>>
         ELSE IF ~IsList(evidence) \/ ~AllStr(evidence) THEN <<EvidenceTypeMsg>>
         ELSE IF ~InEvidenceRange(Len(evidence.a))
         THEN <<EvidenceRangeMsg>>
         ELSE <<>>
  ELSE <<>>

\* the checks stopped after the first section that reports something
Checks_failFast(prof) ==
  LET all == <<MissingKeyErrs(prof), I18nErrs(prof), ProjectsErrs(prof),
               ContextsErrs(prof), ReadingErrs(prof), PhdErrs(prof),
               ProofErrs(prof), BmiErrs(prof)>>
      reported == SelectSeq(all, LAMBDA l : l # <<>>)
  IN IF reported = <<>> THEN <<>> ELSE Head(reported)

\* lines 32-177: the checks of a root object, in the order of the source
Checks(prof) ==
  MissingKeyErrs(prof) \o I18nErrs(prof) \o ProjectsErrs(prof)
    \o ContextsErrs(prof) \o ReadingErrs(prof) \o PhdErrs(prof)
    \o ProofErrs(prof) \o BmiErrs(prof)

\* "return errors" in place of the one-element list of line 30
validate_returnsErrors(prof) ==
  IF ~IsDict(prof) THEN <<>> ELSE Checks(prof)

\* lines 26-179: the list validate returns; a Traceback element stands for
\* an exception raised at that point
validate(prof) ==
  IF ~IsDict(prof) THEN <<RootMsg>> ELSE Checks(prof)

Raised(list) == \E i \in 1..Len(list) : list[i] = Traceback

(***************************************************************************)
(* The input files                                                         *)
(*                                                                         *)
(* A file is [readable, utf8, bom, body]: whether it can be opened,        *)
(* whether its bytes are valid UTF-8, whether they start with the bytes    *)
(* EF BB BF, and what follows: the serialization of a JSON value, or       *)
(* Malformed for a text that is not JSON.                                  *)
(***************************************************************************)
Malformed == [t |-> "malformed"]

sBmi == Str(<<"b", "m", "i">>)
sA == Str(<<"a">>)
sBlank == Str(<<" ">>)
sPadded == Str(<<" ", "a">>)
sEmpty == Str(<<>>)
sText == Str(<<"x">>)

MaxProjects == 3
MaxEvidence == 9
MaxBullets == 11
MaxItems == 2

StrArr(n) == Arr([i \in 1..n |-> sText])

\* all sequences over S of length at most n
RECURSIVE SeqsUpTo(_, _)
SeqsUpTo(S, n) ==
  IF n = 0 THEN {<<>>}
  ELSE LET shorter == SeqsUpTo(S, n - 1) IN
       shorter \cup {Append(q, x) : q \in {r \in shorter : Len(r) = n - 1}, x \in S}

\* ---- projects ----
IdMaps == {EmptyMap, "id" :> Num(7), "id" :> sEmpty, "id" :> sBlank,
           "id" :> sA, "id" :> sPadded, "id" :> sBmi}

IdProjects == {Num(0)} \cup {Obj(m) : m \in IdMaps}

EvidenceValues ==
  {StrArr(n) : n \in 0..MaxEvidence}
    \cup {None, sText, Arr(<<sText, Num(1), sText, sText>>)}

BmiProjects == {Obj(("id" :> sBmi) @@ ("evidence_bullets" :> e)) : e \in EvidenceValues}

ExtraMaps ==
  { "contained" :> sText,
    "contained" :> Arr(<<Num(1), Obj("name" :> sText), EmptyObj,
                         Obj(("name" :> EmptyObj) @@ ("tagline" :> Num(2)))>>),
    "spec" :> Num(3),
    "spec" :> Obj(("status" :> Num(1)) @@ ("boundary" :> EmptyObj)
                  @@ ("purpose" :> Obj("en" :> Num(1))) @@ ("inputs" :> sText)
                  @@ ("outputs" :> Arr(<<>>))),
    ("contained" :> None) @@ ("spec" :> Obj(("status" :> sText) @@ ("boundary" :> sText))) }

RichProjects ==
  BmiProjects \cup {Obj(i @@ x) : i \in {"id" :> Num(7), "id" :> sA, "id" :> sBmi},
                                  x \in ExtraMaps}

ProjectLists ==
  SeqsUpTo(IdProjects, MaxProjects)
    \cup {<<p>> : p \in RichProjects}
    \cup {<<p, q>> : p \in RichProjects, q \in {Obj("id" :> sBmi), Obj("id" :> sA)}}
    \cup {<<q, p>> : p \in RichProjects, q \in {Obj("id" :> sBmi), Num(0)}}

GoodProjects == "projects" :> Arr(<<Obj("id" :> sBmi), Obj("id" :> sA)>>)

ProjectsWide ==
  {EmptyMap, "projects" :> None, "projects" :> sText, "projects" :> EmptyObj}
    \cup {"projects" :> Arr(l) : l \in ProjectLists}

ProjectsNarrow ==
  {EmptyMap, "projects" :> None, "projects" :> sText, GoodProjects,
   "projects" :> Arr(<<Obj("id" :> sA)>>)}

\* ---- person, i18n, phd_extract ----
PersonMaps == {EmptyMap, "person" :> None, "person" :> EmptyObj}

GoodI18n == "i18n" :> Obj(("en" :> EmptyObj) @@ ("it" :> EmptyObj))

I18nMaps ==
  {EmptyMap, "i18n" :> None, "i18n" :> sText, GoodI18n,
   "i18n" :> Obj("en" :> EmptyObj),
   "i18n" :> Obj(("en" :> Num(1)) @@ ("it" :> EmptyObj))}

GoodPhdFields ==
  ("source" :> EmptyObj)
    @@ [k \in {required_arrays[i] : i \in 1..Len(required_arrays)} |-> StrArr(1)]

GoodPhd == "phd_extract" :> Obj(GoodPhdFields)

PhdMaps ==
  {EmptyMap, "phd_extract" :> None, "phd_extract" :> Num(1), GoodPhd,
   "phd_extract" :> Obj(("source" :> sText) @@ ("innovation" :> sText)
                        @@ ("dissemination" :> Arr(<<Num(1)>>))
                        @@ ("research_objective" :> Arr(<<>>)))}

\* ---- contexts, reading ----
OptionalMaps ==
  {EmptyMap,
   ("contexts" :> Num(1)) @@ ("reading" :> sText),
   ("contexts" :> Obj(("disclaimer" :> EmptyObj) @@ ("direct_work" :> sText)
                      @@ ("operational_exposure" :> Arr(<<>>))))
     @@ ("reading" :> Obj("domains" :> sText)),
   ("contexts" :> Obj("disclaimer" :> Obj("it" :> sText)))
     @@ ("reading" :> Obj("domains" :> Arr(<<>>)))}

\* ---- proof ----
lDoMoMEA == Str(<<"D", "o", "M", "o", "M", "E", "A">>)
lUpper == Str(<<"D", "O", "M", "O", "M", "E", "A">>)
lLower == Str(<<"d", "o", "m", "o", "m", "e", "a">>)
lInside == Str(<<"x", " ", "D", "o", "m", "o", "m", "e", "a", "!">>)
lNear == Str(<<"d", "o", "m", "o", "m", "e">>)
lOther == Str(<<"B", "M", "I">>)

MatchingLabels == {lDoMoMEA, lUpper, lLower, lInside, Obj("en" :> lDoMoMEA),
                   Obj(("en" :> lUpper) @@ ("it" :> lOther))}
OtherLabels == {lNear, lOther, Num(1), None, EmptyObj, Obj("it" :> lLower),
                Obj("en" :> Num(1)), Obj("en" :> lNear)}

BulletsValues ==
  {StrArr(n) : n \in 0..MaxBullets}
    \cup {None, sText, Arr(<<sText, sText, sText, sText, sText, Num(1)>>)}

SourceMaps == {EmptyMap, "source" :> sText, "source" :> EmptyObj, "source" :> Num(1)}

GoodItem == Obj(("label" :> lDoMoMEA) @@ ("bullets" :> StrArr(6)) @@ ("source" :> sText))
BadItem == Obj(("label" :> lLower) @@ ("bullets" :> StrArr(5)))

LabelItems ==
  {Num(1), EmptyObj}
    \cup {Obj(("label" :> l) @@ ("bullets" :> StrArr(6)) @@ ("source" :> sText)) :
            l \in MatchingLabels \cup OtherLabels}

RichItems ==
  {Obj(("label" :> lDoMoMEA) @@ ("bullets" :> b) @@ s) :
     b \in BulletsValues, s \in SourceMaps}
    \cup {Obj(("label" :> lOther) @@ s) : s \in SourceMaps}

ItemLists ==
  SeqsUpTo(LabelItems, MaxItems)
    \cup {<<i>> : i \in RichItems}
    \cup {<<j, i>> : i \in RichItems, j \in {GoodItem, BadItem}}
    \cup {<<i, j>> : i \in RichItems, j \in {GoodItem, BadItem}}

Groups ==
  {Num(1), EmptyObj, Obj("items" :> sText), Obj("items" :> None)}
    \cup {Obj("items" :> Arr(l)) : l \in ItemLists}

SideGroups ==
  {Num(1), Obj("items" :> Arr(<<>>)), Obj("items" :> Arr(<<GoodItem>>)),
   Obj("items" :> Arr(<<BadItem>>)),
   Obj("items" :> Arr(<<Obj("label" :> lOther)>>))}

CategoryLists ==
  {<<>>} \cup {<<g>> : g \in Groups}
    \cup {<<g, h>> : g \in SideGroups, h \in SideGroups}

ProofWide ==
  {EmptyMap, "proof" :> None, "proof" :> sText, "proof" :> Arr(<<>>),
   "proof" :> EmptyObj, "proof" :> Obj("categories" :> None),
   "proof" :> Obj("categories" :> sText),
   "proof" :> Obj("categories" :> Obj("items" :> Arr(<<BadItem>>)))}
    \cup {"proof" :> Obj("categories" :> Arr(c)) : c \in CategoryLists}

ProofNarrow ==
  {EmptyMap, "proof" :> Obj("categories" :> Arr(<<>>)),
   "proof" :> Obj("categories" :> Arr(<<Obj("items" :> Arr(<<GoodItem>>))>>))}

\* ---- documents ----
GoodRest == ("person" :> EmptyObj) @@ GoodI18n @@ GoodPhd

RestMaps ==
  {GoodRest, EmptyMap,
   ("person" :> None) @@ ("i18n" :> sText) @@ ("phd_extract" :> None)
     @@ ("contexts" :> Num(1)) @@ ("proof" :> sText),
   GoodRest @@ ("proof" :> Obj("categories" :> Arr(<<>>)))
     @@ ("reading" :> Obj("domains" :> sText))}

RootObjects ==
  {Obj(p @@ r) : p \in ProjectsWide, r \in RestMaps}
    \cup {Obj(a @@ b @@ c @@ d @@ e @@ f) :
            a \in PersonMaps, b \in I18nMaps, c \in ProjectsNarrow,
            d \in PhdMaps, e \in OptionalMaps, f \in ProofNarrow}
    \cup {Obj(p @@ r) : p \in ProofWide, r \in {GoodRest @@ GoodProjects, EmptyMap}}

GoodDocument == Obj(GoodRest @@ GoodProjects)

RootOthers ==
  {None, Bool(TRUE), Num(1), sText, Arr(<<>>), Arr(<<GoodDocument>>)}

Documents == RootObjects \cup RootOthers

NoFile == [readable |-> FALSE, utf8 |-> TRUE, bom |-> FALSE, body |-> Malformed]

Files ==
  {NoFile,
   [readable |-> TRUE, utf8 |-> FALSE, bom |-> FALSE, body |-> GoodDocument]}
    \cup {[readable |-> TRUE, utf8 |-> TRUE, bom |-> b, body |-> d] :
            b \in BOOLEAN, d \in {Malformed, GoodDocument, EmptyObj, Arr(<<>>)}}
    \cup {[readable |-> TRUE, utf8 |-> TRUE, bom |-> FALSE, body |-> d] :
            d \in Documents}

(***************************************************************************)
(* main()                                                                  *)
(***************************************************************************)
\* line 187: Path.read_text(encoding="utf-8").  The codec "utf-8" keeps a
\* leading byte order mark as the character U+FEFF of the text.
read_text(f) ==
  IF ~f.readable THEN [exc |-> "OSError"]
  ELSE IF ~f.utf8 THEN [exc |-> "UnicodeDecodeError"]
  ELSE [exc |-> "none", text |-> [bom |-> f.bom, body |-> f.body]]

\* line 193: json.loads(raw).  A str that starts with U+FEFF is rejected
\* ("Unexpected UTF-8 BOM (decode using utf-8-sig)").
loads(text) ==
  IF text.bom THEN [exc |-> "JSONDecodeError"]
  ELSE IF text.body = Malformed THEN [exc |-> "JSONDecodeError"]
  ELSE [exc |-> "none", value |-> text.body]

Running == -1

\* nothing but the validator runs
AuxIdle ==
  /\ tool = "validate_profile_json"
  /\ diskOrig = None /\ diskPrev = None /\ disk = None /\ passes = 0
  /\ locArg = None /\ locRet = FALSE

Init ==
  /\ file \in Files
  /\ pc = "start"
  /\ raw = None
  /\ profile = None
  /\ errors = <<>>
  /\ exitCode = Running
  /\ failure = "none"
  /\ validateCalls = 0
  /\ AuxIdle

\* lines 186-190; an exception that is not an OSError leaves main uncaught
\* and the interpreter exits with status 1
Read ==
  /\ pc = "start"
  /\ LET r == read_text(file) IN
     IF r.exc = "OSError"
     THEN /\ pc' = "done" /\ exitCode' = 2 /\ failure' = "OSError"
          /\ UNCHANGED raw
     ELSE IF r.exc # "none"
     THEN /\ pc' = "done" /\ exitCode' = 1 /\ failure' = r.exc
          /\ UNCHANGED raw
     ELSE /\ pc' = "read" /\ raw' = r.text
          /\ UNCHANGED <<exitCode, failure>>
  /\ UNCHANGED <<file, profile, errors, validateCalls>>
  /\ UNCHANGED aux

\* lines 192-197
Parse ==
  /\ pc = "read"
  /\ LET r == loads(raw) IN
     IF r.exc = "JSONDecodeError"
     THEN /\ pc' = "done" /\ exitCode' = 1 /\ failure' = "JSONDecodeError"
          /\ UNCHANGED profile
     ELSE /\ pc' = "parsed" /\ profile' = r.value
          /\ UNCHANGED <<exitCode, failure>>
  /\ UNCHANGED <<file, raw, errors, validateCalls>>
  /\ UNCHANGED aux

\* line 199
Validate ==
  /\ pc = "parsed"
  /\ validateCalls' = validateCalls + 1
  /\ LET result == validate(profile) IN
     IF Raised(result)
     THEN /\ pc' = "done" /\ exitCode' = 1 /\ failure' = "Traceback"
          /\ UNCHANGED errors
     ELSE /\ pc' = "validated" /\ errors' = result
          /\ UNCHANGED <<exitCode, failure>>
  /\ UNCHANGED <<file, raw, profile>>
  /\ UNCHANGED aux

\* lines 200-207
Report ==
  /\ pc = "validated"
  /\ pc' = "done"
  /\ IF errors # <<>>
     THEN exitCode' = 1 /\ failure' = "schema"
     ELSE exitCode' = 0 /\ failure' = "none"
  /\ UNCHANGED <<file, raw, profile, errors, validateCalls>>
  /\ UNCHANGED aux

Next == Read \/ Parse \/ Validate \/ Report

Spec == Init /\ [][Next]_vars

TypeOK ==
  /\ pc \in {"start", "read", "parsed", "validated", "done"}
  /\ exitCode \in {Running, 0, 1, 2}
  /\ validateCalls \in 0..1

(***************************************************************************)
(* Properties                                                              *)
(***************************************************************************)
Count(list, m) == Cardinality({i \in 1..Len(list) : list[i] = m})
Has(list, m) == \E i \in 1..Len(list) : list[i] = m

\* validate has returned its list for a root object
Validated == pc = "validated" /\ IsDict(profile)

\* the value of a top-level key that is a JSON array, or <<>>
ListAt(doc, key) ==
  IF HasKey(doc, key) /\ IsList(doc.f[key]) THEN doc.f[key].a ELSE <<>>

HasListAt(doc, key) == HasKey(doc, key) /\ IsList(doc.f[key])

\* p is a project object whose id is the string chars
HasId(p, chars) ==
  IsDict(p) /\ HasKey(p, "id") /\ IsStr(p.f["id"]) /\ p.f["id"].s = chars

NoBmiProject(doc) ==
  \A i \in 1..Len(ListAt(doc, "projects")) :
     ~HasId(ListAt(doc, "projects")[i], <<"b", "m", "i">>)

\* C1 (as stated): every root object with no project object of id "bmi",
\* also when "projects" is absent, null or not an array, gets the message
\* "projects must include id=bmi".
C1_BmiRequiredAlways ==
  (Validated /\ NoBmiProject(profile)) => Has(errors, BmiMsg)

\* C1 (amended): every root object whose "projects" value is an array with no
\* project object of id "bmi" gets the message "projects must include
\* id=bmi", whatever the rest of the document contains.
C1_BmiRequiredInArray ==
  (Validated /\ HasListAt(profile, "projects") /\ NoBmiProject(profile))
    => Has(errors, BmiMsg)

C1_Witness ==
  /\ Validated /\ HasListAt(profile, "projects") /\ NoBmiProject(profile)
  /\ Len(ListAt(profile, "projects")) >= 2
  /\ Has(errors, BmiMsg)
  /\ Has(errors, "i18n must be an object")

FourKeys == {"person", "i18n", "projects", "phd_extract"}

GoodValue ==
  GoodRest @@ GoodProjects

\* doc with the keys of the set keys set to well-formed values
Completed(doc, keys) ==
  Obj([k \in (DOMAIN doc.f) \cup keys |->
         IF k \in keys THEN GoodValue[k] ELSE doc.f[k]])

AbsentKeys(doc) == {k \in FourKeys : ~HasKey(doc, k)}

\* keys validate reports as missing: the absent ones, and phd_extract when
\* its value is null
MissingKeys(doc) ==
  AbsentKeys(doc)
    \cup {k \in {"phd_extract"} : HasKey(doc, k) /\ doc.f[k] = None}

MissingCount(list) ==
  Count(list, MissingMsg("person")) + Count(list, MissingMsg("i18n"))
    + Count(list, MissingMsg("projects")) + Count(list, MissingMsg("phd_extract"))

\* C2 (as stated): the number of "Missing required top-level key" messages
\* is the number of absent keys among the four, one per absent key and none
\* for a present key, and they are the only messages when the document is
\* otherwise well-formed.
C2_OnePerAbsentKey ==
  Validated =>
    /\ \A k \in FourKeys :
         Count(errors, MissingMsg(k)) = (IF k \in AbsentKeys(profile) THEN 1 ELSE 0)
    /\ validate(Completed(profile, AbsentKeys(profile))) = <<>>
         => Len(errors) = Cardinality(AbsentKeys(profile))

\* C2 (amended): one "Missing required top-level key" message for each of
\* person, i18n, projects that is absent and one for phd_extract when it is
\* absent or null, none otherwise; they are the only messages when the
\* document is otherwise well-formed.
C2_OnePerMissingKey ==
  Validated =>
    /\ \A k \in FourKeys :
         Count(errors, MissingMsg(k)) = (IF k \in MissingKeys(profile) THEN 1 ELSE 0)
    /\ validate(Completed(profile, MissingKeys(profile))) = <<>>
         => /\ Len(errors) = Cardinality(MissingKeys(profile))
            /\ MissingCount(errors) = Len(errors)

C2_Witness ==
  /\ Validated
  /\ AbsentKeys(profile) = {"person", "projects"}
  /\ MissingKeys(profile) = {"person", "projects", "phd_extract"}
  /\ errors = <<MissingMsg("person"), MissingMsg("projects"), MissingMsg("phd_extract")>>

\* C3: a root value that is not an object yields exactly the list
\* <<"Root JSON value must be an object">>; a root object never yields that
\* message.
C3_RootMustBeObject ==
  pc = "validated" =>
    IF IsDict(profile) THEN ~Has(errors, RootMsg) ELSE errors = <<RootMsg>>

C3_Witness ==
  pc = "validated" /\ IsList(profile) /\ Len(profile.a) = 1 /\ errors = <<RootMsg>>

\* the ids (character sequences) that occur as string ids of project objects
StringIds(doc) ==
  {ListAt(doc, "projects")[i].f["id"].s :
     i \in {j \in 1..Len(ListAt(doc, "projects")) :
              /\ IsDict(ListAt(doc, "projects")[j])
              /\ HasKey(ListAt(doc, "projects")[j], "id")
              /\ IsStr(ListAt(doc, "projects")[j].f["id"])}}

\* number of project objects whose id is the string chars
Occurrences(doc, chars) ==
  Cardinality({i \in 1..Len(ListAt(doc, "projects")) :
                 HasId(ListAt(doc, "projects")[i], chars)})

\* a str no strip() can empty
NonBlank(chars) == \E i \in 1..Len(chars) : chars[i] \notin Whitespace

\* C4 (as stated): the k project objects that share a non-empty string id
\* get k-1 "Duplicate projects[].id" messages, one for each occurrence after
\* the first.
C4_DuplicatesOfNonEmptyIds ==
  Validated =>
    \A x \in StringIds(profile) :
       x # <<>> => Count(errors, DuplicateMsg(x)) = Occurrences(profile, x) - 1

\* C4 (amended): the k project objects that share a string id with at least
\* one non-whitespace character get k-1 "Duplicate projects[].id" messages,
\* one for each occurrence after the first; an id that is empty or only
\* whitespace never gets one.
C4_DuplicatesOfNonBlankIds ==
  Validated =>
    \A x \in StringIds(profile) :
       Count(errors, DuplicateMsg(x)) =
         (IF NonBlank(x) THEN Occurrences(profile, x) - 1 ELSE 0)

C4_Witness ==
  /\ Validated
  /\ Occurrences(profile, <<"a">>) = 3
  /\ Count(errors, DuplicateMsg(<<"a">>)) = 2
  /\ ~HasId(ListAt(profile, "projects")[1], <<" ", "a">>)

\* index of the first project object with id "bmi" (0 when there is none)
FirstBmi(doc) ==
  LET l == ListAt(doc, "projects")
      hits == {i \in 1..Len(l) : HasId(l[i], <<"b", "m", "i">>)}
  IN IF hits = {} THEN 0 ELSE CHOOSE i \in hits : \A j \in hits : i <= j

\* C5: with a "bmi" project (the first one of the array) the message
\* "evidence_bullets must have 4-8 items" is reported iff evidence_bullets is
\* an array of n strings with n < 4 or n > 8; an absent evidence_bullets
\* gives no message.
C5_EvidenceBounds ==
  (Validated /\ FirstBmi(profile) > 0) =>
    LET bmi == ListAt(profile, "projects")[FirstBmi(profile)] IN
    IF ~HasKey(bmi, "evidence_bullets")
    THEN ~Has(errors, EvidenceRangeMsg) /\ ~Has(errors, EvidenceTypeMsg)
    ELSE LET ev == bmi.f["evidence_bullets"] IN
         (IsList(ev) /\ \A i \in 1..Len(ev.a) : IsStr(ev.a[i]))
           => (Has(errors, EvidenceRangeMsg) <=> (Len(ev.a) < 4 \/ Len(ev.a) > 8))

C5_Witness ==
  /\ Validated /\ FirstBmi(profile) > 0
  /\ LET bmi == ListAt(profile, "projects")[FirstBmi(profile)] IN
     /\ HasKey(bmi, "evidence_bullets")
     /\ IsList(bmi.f["evidence_bullets"])
     /\ Len(bmi.f["evidence_bullets"].a) = 9
  /\ Has(errors, EvidenceRangeMsg)

\* ---- proof.categories ----
DomomeaUpper == <<"D", "O", "M", "O", "M", "E", "A">>

\* chars contains d-o-m-o-m-e-a, each letter in either case
MatchesDomomea(chars) ==
  \E i \in 0..(Len(chars) - 7) :
     \A j \in 1..7 : chars[i + j] \in {Domomea[j], DomomeaUpper[j]}

\* the label the match is made on: its "en" variant when the label is an
\* object, the label itself otherwise
EnglishLabel(item) ==
  IF ~HasKey(item, "label") THEN None
  ELSE IF IsDict(item.f["label"])
       THEN (IF HasKey(item.f["label"], "en") THEN item.f["label"].f["en"] ELSE None)
       ELSE item.f["label"]

ItemMatches(item) ==
  IsDict(item) /\ IsStr(EnglishLabel(item)) /\ MatchesDomomea(EnglishLabel(item).s)

\* some item of some category of the array cats matches
SomeItemMatches(cats) ==
  \E g \in 1..Len(cats) :
     /\ IsDict(cats[g]) /\ HasKey(cats[g], "items") /\ IsList(cats[g].f["items"])
     /\ \E i \in 1..Len(cats[g].f["items"].a) : ItemMatches(cats[g].f["items"].a[i])

CategoriesPresent(doc) ==
  HasKey(doc, "proof") /\ IsDict(doc.f["proof"]) /\ HasKey(doc.f["proof"], "categories")

CategoriesList(doc) ==
  IF CategoriesPresent(doc) /\ IsList(doc.f["proof"].f["categories"])
  THEN doc.f["proof"].f["categories"].a ELSE <<>>

\* C6 (as stated): whenever proof.categories is present, the message
\* "proof.categories must include a DoMoMEA evidence item" is reported once
\* when no item label contains "domomea" in any casing, and not at all when
\* some item matches.
C6_DomomeaRequiredWhenPresent ==
  (Validated /\ CategoriesPresent(profile)) =>
    Count(errors, NoDomomeaMsg) =
      (IF SomeItemMatches(CategoriesList(profile)) THEN 0 ELSE 1)

\* C6 (amended): whenever proof is an object whose "categories" is an array,
\* the message is reported once when no item label contains "domomea" in any
\* casing, and not at all when some item matches.
C6_DomomeaRequiredInArray ==
  (Validated /\ CategoriesPresent(profile)
     /\ IsList(profile.f["proof"].f["categories"])) =>
    Count(errors, NoDomomeaMsg) =
      (IF SomeItemMatches(CategoriesList(profile)) THEN 0 ELSE 1)

C6_Witness ==
  /\ Validated /\ CategoriesPresent(profile)
  /\ Len(CategoriesList(profile)) = 1
  /\ IsDict(CategoriesList(profile)[1])
  /\ HasKey(CategoriesList(profile)[1], "items")
  /\ IsList(CategoriesList(profile)[1].f["items"])
  /\ Len(CategoriesList(profile)[1].f["items"].a) = 2
  /\ ~SomeItemMatches(CategoriesList(profile))
  /\ Count(errors, NoDomomeaMsg) = 1

\* ---- main ----
ReadFailed == read_text(file).exc # "none"
ParseFailed == ~ReadFailed /\ loads(read_text(file).text).exc # "none"

\* C7: the exit code is 2 exactly when reading the file fails, 1 exactly when
\* the file was read and parsing fails or validate returns messages, 0
\* exactly when validate returned the empty list; validate is not called
\* after a read or parse failure, and the code is one of the three.
C7_ExitCodes ==
  pc = "done" =>
    /\ exitCode \in {0, 1, 2}
    /\ exitCode = 2 <=> ReadFailed
    /\ exitCode = 1 <=> (~ReadFailed /\ (ParseFailed \/ errors # <<>>))
    /\ exitCode = 0 <=> (~ReadFailed /\ ~ParseFailed /\ validateCalls = 1 /\ errors = <<>>)
    /\ (ReadFailed \/ ParseFailed) => validateCalls = 0

\* C8: a file that is a byte order mark followed by a schema-valid document
\* ends with exit code 0, as the same file without the mark does.
C8_BomTolerated ==
  (/\ pc = "done" /\ file.readable /\ file.utf8 /\ file.bom
   /\ file.body # Malformed /\ validate(file.body) = <<>>)
    => exitCode = 0

\* ---- totality ----
Projects == ListAt(profile, "projects")

WrongValue(obj, key, Ok(_)) ==
  HasKey(obj, key) /\ obj.f[key] # None /\ ~Ok(obj.f[key])

Sections == {"i18n", "projects", "contexts", "reading", "phd_extract", "proof"}

\* the document reduced to one top-level section
Alone(doc, section) ==
  Obj([k \in (DOMAIN doc.f) \cap {section} |-> doc.f[k]])

Range(list) == {list[i] : i \in 1..Len(list)}

\* the messages about a section: those the section gets when it is alone in
\* the document, the missing-key messages of the other keys left out
SectionMessages(doc, section) ==
  Range(validate(Alone(doc, section)))
    \ {MissingMsg(k) : k \in FourKeys \ {section}}

\* the messages of list about the section, in the order of list
About(list, doc, section) ==
  SelectSeq(list, LAMBDA m : m \in SectionMessages(doc, section))

\* the number of messages of list about one of the six sections
AboutTotal(list, doc) ==
  Len(About(list, doc, "i18n")) + Len(About(list, doc, "projects"))
    + Len(About(list, doc, "contexts")) + Len(About(list, doc, "reading"))
    + Len(About(list, doc, "phd_extract")) + Len(About(list, doc, "proof"))

\* C11: the messages about a top-level section, and their order, are those
\* the section gets alone: they depend on the value of that section only,
\* and no other section suppresses, changes or adds to them.
C11_SectionsIndependent ==
  Validated =>
    /\ \A sec \in Sections :
         About(errors, profile, sec) = About(validate(Alone(profile, sec)), profile, sec)
    /\ Len(errors) = AboutTotal(errors, profile) + Count(errors, MissingMsg("person"))

C11_Witness ==
  /\ Validated
  /\ Len(About(errors, profile, "projects")) >= 3
  /\ Has(errors, BmiMsg)
  /\ About(errors, profile, "i18n") = <<"i18n must be an object">>
  /\ About(errors, profile, "contexts") = <<"contexts must be an object">>
  /\ About(errors, profile, "phd_extract") = <<MissingMsg("phd_extract")>>

\* ---- i18n ----
I18nMessages ==
  {MissingMsg("i18n"), "i18n must be an object",
   "i18n missing language: en", "i18n missing language: it",
   "i18n.en must be an object", "i18n.it must be an object"}

I18nWellFormed(v) ==
  /\ IsDict(v)
  /\ \A lang \in {"en", "it"} : HasKey(v, lang) /\ IsDict(v.f[lang])

\* C12: when the key "i18n" is present, no i18n message is returned iff its
\* value is an object with "en" and "it", each an object; every other present
\* value, null included, gets at least one i18n message.
C12_I18nShape ==
  (Validated /\ HasKey(profile, "i18n")) =>
    ((Range(errors) \cap I18nMessages = {}) <=> I18nWellFormed(profile.f["i18n"]))

\* ---- localized text or string ----
Accepted(v) ==
  IsStr(v) \/ (IsDict(v) /\ (HasKey(v, "en") \/ HasKey(v, "it")))

\* the message msg is reported iff the key is present with a value that is
\* not accepted
FieldTyped(obj, key, msg) ==
  HasKey(obj, key) => (Has(errors, msg) <=> ~Accepted(obj.f[key]))

\* the items of proof.categories that match "domomea", in document order
Matches(doc) ==
  Flatten([g \in 1..Len(CategoriesList(doc)) |->
    LET grp == CategoriesList(doc)[g] IN
    IF IsDict(grp) /\ HasKey(grp, "items") /\ IsList(grp.f["items"])
    THEN SelectSeq(grp.f["items"].a, ItemMatches) ELSE <<>>])

\* C13: name and tagline of a contained item, boundary and purpose of a
\* spec, contexts.disclaimer and the source of a DoMoMEA item are accepted
\* exactly when the value is a string or an object with "en" or "it"; every
\* other value, an object with neither key included, gets the field's
\* message.
C13_LocalizedFields ==
  Validated =>
    /\ \A i \in 1..Len(Projects) :
         IsDict(Projects[i]) =>
           /\ (HasKey(Projects[i], "contained") /\ IsList(Projects[i].f["contained"])) =>
                \A j \in 1..Len(Projects[i].f["contained"].a) :
                   LET item == Projects[i].f["contained"].a[j]
                       pre == "projects[" \o ToString(i - 1) \o "].contained["
                                \o ToString(j - 1) \o "]"
                   IN IsDict(item) =>
                        /\ FieldTyped(item, "name", pre \o ".name must be string or localized object")
                        /\ FieldTyped(item, "tagline", pre \o ".tagline must be string or localized object")
           /\ (HasKey(Projects[i], "spec") /\ IsDict(Projects[i].f["spec"])) =>
                \A key \in {"boundary", "purpose"} :
                   FieldTyped(Projects[i].f["spec"], key,
                              "projects[" \o ToString(i - 1) \o "].spec." \o key
                                \o " must be string or localized object")
    /\ (HasKey(profile, "contexts") /\ IsDict(profile.f["contexts"])) =>
         FieldTyped(profile.f["contexts"], "disclaimer",
                    "contexts.disclaimer must be string or localized object")
    /\ \A k \in 1..Len(Matches(profile)) :
         FieldTyped(Matches(profile)[k], "source",
                    "DoMoMEA proof item #" \o ToString(k)
                      \o " source must be a string or localized object")

\* ---- several DoMoMEA items ----
BulletsTypeMsg(k) ==
  "DoMoMEA proof item #" \o ToString(k) \o " bullets must be an array of strings"
BulletsRangeMsg(k) ==
  "DoMoMEA proof item #" \o ToString(k) \o " bullets must have 6-10 items"

StringArray(item, key) ==
  /\ HasKey(item, key) /\ IsList(item.f[key])
  /\ \A i \in 1..Len(item.f[key].a) : IsStr(item.f[key].a[i])

\* C14: the k-th matching item, in document order, gets a bullets message
\* "DoMoMEA proof item #k ..." iff its bullets are not an array of strings
\* or their number is outside 6..10, whatever the other matches are.
C14_EachMatchChecked ==
  Validated =>
    \A k \in 1..Len(Matches(profile)) :
       LET item == Matches(profile)[k] IN
       /\ Has(errors, BulletsTypeMsg(k)) <=> ~StringArray(item, "bullets")
       /\ Has(errors, BulletsRangeMsg(k)) <=>
            (StringArray(item, "bullets")
               /\ (Len(item.f["bullets"].a) < 6 \/ Len(item.f["bullets"].a) > 10))
       /\ Count(errors, BulletsTypeMsg(k)) + Count(errors, BulletsRangeMsg(k)) <= 1

C14_Witness ==
  /\ Validated
  /\ Len(Matches(profile)) = 2
  /\ StringArray(Matches(profile)[1], "bullets")
  /\ Len(Matches(profile)[1].f["bullets"].a) = 6
  /\ StringArray(Matches(profile)[2], "bullets")
  /\ Len(Matches(profile)[2].f["bullets"].a) = 11
  /\ Has(errors, BulletsRangeMsg(2))
  /\ ~Has(errors, BulletsRangeMsg(1))
  /\ ~Has(errors, BulletsTypeMsg(1))

(***************************************************************************)
(* _is_localized called on its own                                         *)
(***************************************************************************)
LocalizedKeys == {"en", "it", "fr"}
MappedValues == {sText, Num(1), None, EmptyObj}

\* every object over a subset of the keys
MapsOver(keys, values) ==
  UNION {[ks -> values] : ks \in SUBSET keys}

LocalizedInputs ==
  {None, Bool(TRUE), Bool(FALSE), Num(0), sEmpty, sText, lDoMoMEA,
   Arr(<<>>), Arr(<<sText>>), Arr(<<Obj("en" :> sText)>>)}
    \cup {Obj(m) : m \in MapsOver(LocalizedKeys, MappedValues)}

MainIdle ==
  /\ file = NoFile /\ raw = None /\ profile = None /\ errors = <<>>
  /\ exitCode = Running /\ failure = "none" /\ validateCalls = 0

InitLocalized ==
  /\ MainIdle
  /\ pc = "call"
  /\ tool = "_is_localized"
  /\ diskOrig = None /\ diskPrev = None /\ disk = None /\ passes = 0
  /\ locArg \in LocalizedInputs
  /\ locRet = FALSE

\* lines 18-19
CallIsLocalized ==
  /\ pc = "call"
  /\ pc' = "returned"
  /\ locRet' = _is_localized(locArg)
  /\ UNCHANGED <<file, raw, profile, errors, exitCode, failure, validateCalls,
                 tool, diskOrig, diskPrev, disk, passes, locArg>>

NextLocalized == CallIsLocalized

SpecLocalized == InitLocalized /\ [][NextLocalized]_vars

HasLanguageKey(v) == IsDict(v) /\ (DOMAIN v.f) \cap {"en", "it"} # {}

\* C16 (as stated): _is_localized is true for every string and for every
\* object with "en" or "it", whatever they map to, and false for every other
\* value.
C16_TrueForStrings ==
  pc = "returned" => (locRet <=> (IsStr(locArg) \/ HasLanguageKey(locArg)))

\* C16 (amended): _is_localized is true exactly for the objects with "en" or
\* "it", whatever they map to; it is false for every other value, plain
\* strings included.
C16_TrueForLanguageObjects ==
  pc = "returned" => (locRet <=> HasLanguageKey(locArg))

C16_Witness ==
  /\ pc = "returned"
  /\ IsDict(locArg) /\ DOMAIN locArg.f = {"it", "fr"}
  /\ locArg.f["it"] = Num(1)
  /\ locRet

(***************************************************************************)
(* The icon tables of add_hero_icons.py, add_more_icons.py and             *)
(* replace_icons.py, each text a tuple of characters                       *)
(***************************************************************************)
\* add_hero_icons.py lines 9-14
bullet_icons ==
  <<<<"<", "i", " ", "c", "l", "a", "s", "s", "=", "\"", "f", "a", " ", "f", "a", "-", "c", "h", "a", "i", "n", "\"", ">", "<", "/", "i", ">">>,
    <<"<", "i", " ", "c", "l", "a", "s", "s", "=", "\"", "f", "a", " ", "f", "a", "-", "l", "i", "g", "h", "t", "b", "u", "l", "b", "-", "o", "\"", ">", "<", "/", "i", ">">>,
    <<"<", "i", " ", "c", "l", "a", "s", "s", "=", "\"", "f", "a", " ", "f", "a", "-", "c", "h", "e", "c", "k", "-", "c", "i", "r", "c", "l", "e", "-", "o", "\"", ">", "<", "/", "i", ">">>,
    <<"<", "i", " ", "c", "l", "a", "s", "s", "=", "\"", "f", "a", " ", "f", "a", "-", "a", "r", "r", "o", "w", "s", "-", "a", "l", "t", "\"", ">", "<", "/", "i", ">">>>>

\* add_hero_icons.py lines 30-48: the keys prefixed without a type test
hero_labels ==
  <<<<<<"h", "e", "r", "o", ".", "k", "i", "c", "k", "e", "r">>,
      <<"<", "i", " ", "c", "l", "a", "s", "s", "=", "'", "f", "a", " ", "f", "a", "-", "f", "i", "l", "e", "-", "t", "e", "x", "t", "-", "o", "'", ">", "<", "/", "i", ">">>>>,
    <<<<"h", "e", "r", "o", ".", "c", "t", "a", "P", "r", "o", "j", "e", "c", "t", "s">>,
      <<"<", "i", " ", "c", "l", "a", "s", "s", "=", "'", "f", "a", " ", "f", "a", "-", "f", "o", "l", "d", "e", "r", "-", "o", "p", "e", "n", "-", "o", "'", ">", "<", "/", "i", ">">>>>,
    <<<<"h", "e", "r", "o", ".", "c", "t", "a", "E", "m", "a", "i", "l">>,
      <<"<", "i", " ", "c", "l", "a", "s", "s", "=", "'", "f", "a", " ", "f", "a", "-", "e", "n", "v", "e", "l", "o", "p", "e", "-", "o", "'", ">", "<", "/", "i", ">">>>>,
    <<<<"h", "e", "r", "o", ".", "f", "a", "c", "t", "C", "u", "r", "r", "e", "n", "t">>,
      <<"<", "i", " ", "c", "l", "a", "s", "s", "=", "'", "f", "a", " ", "f", "a", "-", "b", "r", "i", "e", "f", "c", "a", "s", "e", "'", ">", "<", "/", "i", ">">>>>,
    <<<<"h", "e", "r", "o", ".", "f", "a", "c", "t", "L", "o", "c", "a", "t", "i", "o", "n">>,
      <<"<", "i", " ", "c", "l", "a", "s", "s", "=", "'", "f", "a", " ", "f", "a", "-", "m", "a", "p", "-", "m", "a", "r", "k", "e", "r", "'", ">", "<", "/", "i", ">">>>>,
    <<<<"h", "e", "r", "o", ".", "f", "a", "c", "t", "C", "o", "l", "l", "a", "b", "o", "r", "a", "t", "i", "o", "n">>,
      <<"<", "i", " ", "c", "l", "a", "s", "s", "=", "'", "f", "a", " ", "f", "a", "-", "h", "a", "n", "d", "s", "h", "a", "k", "e", "-", "o", "'", ">", "<", "/", "i", ">">>>>>>

\* add_hero_icons.py lines 56-61
epistemic_mappings ==
  <<<<<<"e", "p", "i", "s", "t", "e", "m", "i", "c", ".", "q", "u", "e", "s", "t", "i", "o", "n", "s", "L", "a", "b", "e", "l">>,
      <<"<", "i", " ", "c", "l", "a", "s", "s", "=", "\"", "f", "a", " ", "f", "a", "-", "q", "u", "e", "s", "t", "i", "o", "n", "-", "c", "i", "r", "c", "l", "e", "-", "o", "\"", ">", "<", "/", "i", ">">>>>,
    <<<<"e", "p", "i", "s", "t", "e", "m", "i", "c", ".", "m", "e", "t", "h", "o", "d", "L", "a", "b", "e", "l">>,
      <<"<", "i", " ", "c", "l", "a", "s", "s", "=", "\"", "f", "a", " ", "f", "a", "-", "c", "o", "g", "s", "\"", ">", "<", "/", "i", ">">>>>,
    <<<<"e", "p", "i", "s", "t", "e", "m", "i", "c", ".", "d", "o", "m", "a", "i", "n", "s", "L", "a", "b", "e", "l">>,
      <<"<", "i", " ", "c", "l", "a", "s", "s", "=", "\"", "f", "a", " ", "f", "a", "-", "s", "i", "t", "e", "m", "a", "p", "\"", ">", "<", "/", "i", ">">>>>,
    <<<<"e", "p", "i", "s", "t", "e", "m", "i", "c", ".", "c", "o", "m", "m", "i", "t", "m", "e", "n", "t", "L", "a", "b", "e", "l">>,
      <<"<", "i", " ", "c", "l", "a", "s", "s", "=", "\"", "f", "a", " ", "f", "a", "-", "c", "o", "m", "p", "a", "s", "s", "\"", ">", "<", "/", "i", ">">>>>>>

\* add_hero_icons.py lines 73-79
nav_icons ==
  <<<<<<"n", "a", "v", ".", "h", "o", "m", "e">>,
      <<"<", "i", " ", "c", "l", "a", "s", "s", "=", "\"", "f", "a", " ", "f", "a", "-", "h", "o", "m", "e", "\"", ">", "<", "/", "i", ">">>>>,
    <<<<"n", "a", "v", ".", "i", "n", "d", "e", "x">>,
      <<"<", "i", " ", "c", "l", "a", "s", "s", "=", "\"", "f", "a", " ", "f", "a", "-", "l", "i", "s", "t", "\"", ">", "<", "/", "i", ">">>>>,
    <<<<"n", "a", "v", ".", "n", "o", "t", "e">>,
      <<"<", "i", " ", "c", "l", "a", "s", "s", "=", "\"", "f", "a", " ", "f", "a", "-", "f", "i", "l", "e", "-", "t", "e", "x", "t", "\"", ">", "<", "/", "i", ">">>>>,
    <<<<"n", "a", "v", ".", "e", "v", "i", "d", "e", "n", "c", "e">>,
      <<"<", "i", " ", "c", "l", "a", "s", "s", "=", "\"", "f", "a", " ", "f", "a", "-", "c", "h", "e", "c", "k", "-", "s", "q", "u", "a", "r", "e", "\"", ">", "<", "/", "i", ">">>>>,
    <<<<"n", "a", "v", ".", "c", "o", "n", "t", "a", "c", "t">>,
      <<"<", "i", " ", "c", "l", "a", "s", "s", "=", "\"", "f", "a", " ", "f", "a", "-", "e", "n", "v", "e", "l", "o", "p", "e", "\"", ">", "<", "/", "i", ">">>>>>>

\* add_hero_icons.py lines 92-95
lead_keys ==
  <<<<<<"f", "o", "c", "u", "s", ".", "l", "e", "a", "d">>,
      <<"<", "i", " ", "c", "l", "a", "s", "s", "=", "'", "f", "a", " ", "f", "a", "-", "a", "n", "g", "l", "e", "-", "r", "i", "g", "h", "t", "'", ">", "<", "/", "i", ">">>>>,
    <<<<"e", "p", "i", "s", "t", "e", "m", "i", "c", ".", "l", "e", "a", "d">>,
      <<"<", "i", " ", "c", "l", "a", "s", "s", "=", "'", "f", "a", " ", "f", "a", "-", "a", "n", "g", "l", "e", "-", "r", "i", "g", "h", "t", "'", ">", "<", "/", "i", ">">>>>,
    <<<<"n", "o", "t", "e", ".", "l", "e", "a", "d">>,
      <<"<", "i", " ", "c", "l", "a", "s", "s", "=", "'", "f", "a", " ", "f", "a", "-", "a", "n", "g", "l", "e", "-", "r", "i", "g", "h", "t", "'", ">", "<", "/", "i", ">">>>>,
    <<<<"e", "v", "i", "d", "e", "n", "c", "e", ".", "l", "e", "a", "d">>,
      <<"<", "i", " ", "c", "l", "a", "s", "s", "=", "'", "f", "a", " ", "f", "a", "-", "a", "n", "g", "l", "e", "-", "r", "i", "g", "h", "t", "'", ">", "<", "/", "i", ">">>>>>>

\* add_more_icons.py line 13
icons ==
  <<<<"<", "i", " ", "c", "l", "a", "s", "s", "=", "\"", "f", "a", " ", "f", "a", "-", "c", "u", "b", "e", "\"", ">", "<", "/", "i", ">">>,
    <<"<", "i", " ", "c", "l", "a", "s", "s", "=", "\"", "f", "a", " ", "f", "a", "-", "f", "i", "l", "t", "e", "r", "\"", ">", "<", "/", "i", ">">>,
    <<"<", "i", " ", "c", "l", "a", "s", "s", "=", "\"", "f", "a", " ", "f", "a", "-", "p", "a", "u", "s", "e", "-", "c", "i", "r", "c", "l", "e", "\"", ">", "<", "/", "i", ">">>,
    <<"<", "i", " ", "c", "l", "a", "s", "s", "=", "\"", "f", "a", " ", "f", "a", "-", "r", "e", "f", "r", "e", "s", "h", "\"", ">", "<", "/", "i", ">">>>>

\* add_more_icons.py lines 31-36
focus_icons ==
  <<<<"<", "i", " ", "c", "l", "a", "s", "s", "=", "\"", "f", "a", " ", "f", "a", "-", "l", "i", "n", "k", "\"", ">", "<", "/", "i", ">">>,
    <<"<", "i", " ", "c", "l", "a", "s", "s", "=", "\"", "f", "a", " ", "f", "a", "-", "e", "y", "e", "\"", ">", "<", "/", "i", ">">>,
    <<"<", "i", " ", "c", "l", "a", "s", "s", "=", "\"", "f", "a", " ", "f", "a", "-", "r", "e", "p", "e", "a", "t", "\"", ">", "<", "/", "i", ">">>,
    <<"<", "i", " ", "c", "l", "a", "s", "s", "=", "\"", "f", "a", " ", "f", "a", "-", "s", "i", "t", "e", "m", "a", "p", "\"", ">", "<", "/", "i", ">">>>>

\* add_more_icons.py lines 47-52
collab_icons ==
  <<<<"<", "i", " ", "c", "l", "a", "s", "s", "=", "\"", "f", "a", " ", "f", "a", "-", "f", "l", "a", "s", "k", "\"", ">", "<", "/", "i", ">">>,
    <<"<", "i", " ", "c", "l", "a", "s", "s", "=", "\"", "f", "a", " ", "f", "a", "-", "l", "i", "n", "e", "-", "c", "h", "a", "r", "t", "\"", ">", "<", "/", "i", ">">>,
    <<"<", "i", " ", "c", "l", "a", "s", "s", "=", "\"", "f", "a", " ", "f", "a", "-", "h", "e", "a", "r", "t", "b", "e", "a", "t", "\"", ">", "<", "/", "i", ">">>,
    <<"<", "i", " ", "c", "l", "a", "s", "s", "=", "\"", "f", "a", " ", "f", "a", "-", "c", "o", "d", "e", "\"", ">", "<", "/", "i", ">">>>>

\* add_more_icons.py lines 125-141
icon_mappings ==
  <<<<<<"o", "s", ".", "s", "u", "b", "t", "i", "t", "l", "e">>,
      <<"<", "i", " ", "c", "l", "a", "s", "s", "=", "\"", "f", "a", " ", "f", "a", "-", "c", "o", "g", "s", "\"", ">", "<", "/", "i", ">">>>>,
    <<<<"o", "s", ".", "t", "i", "t", "l", "e">>,
      <<"<", "i", " ", "c", "l", "a", "s", "s", "=", "\"", "f", "a", " ", "f", "a", "-", "c", "o", "g", "s", "\"", ">", "<", "/", "i", ">">>>>,
    <<<<"c", "a", "p", "a", "b", "i", "l", "i", "t", "i", "e", "s", ".", "s", "u", "b", "t", "i", "t", "l", "e">>,
      <<"<", "i", " ", "c", "l", "a", "s", "s", "=", "\"", "f", "a", " ", "f", "a", "-", "b", "r", "i", "e", "f", "c", "a", "s", "e", "\"", ">", "<", "/", "i", ">">>>>,
    <<<<"c", "a", "p", "a", "b", "i", "l", "i", "t", "i", "e", "s", ".", "t", "i", "t", "l", "e">>,
      <<"<", "i", " ", "c", "l", "a", "s", "s", "=", "\"", "f", "a", " ", "f", "a", "-", "b", "r", "i", "e", "f", "c", "a", "s", "e", "\"", ">", "<", "/", "i", ">">>>>,
    <<<<"t", "o", "o", "l", "b", "o", "x", ".", "s", "u", "b", "t", "i", "t", "l", "e">>,
      <<"<", "i", " ", "c", "l", "a", "s", "s", "=", "\"", "f", "a", " ", "f", "a", "-", "w", "r", "e", "n", "c", "h", "\"", ">", "<", "/", "i", ">">>>>,
    <<<<"t", "o", "o", "l", "b", "o", "x", ".", "t", "i", "t", "l", "e">>,
      <<"<", "i", " ", "c", "l", "a", "s", "s", "=", "\"", "f", "a", " ", "f", "a", "-", "w", "r", "e", "n", "c", "h", "\"", ">", "<", "/", "i", ">">>>>,
    <<<<"b", "a", "c", "k", "g", "r", "o", "u", "n", "d", ".", "s", "u", "b", "t", "i", "t", "l", "e">>,
      <<"<", "i", " ", "c", "l", "a", "s", "s", "=", "\"", "f", "a", " ", "f", "a", "-", "m", "a", "p", "-", "m", "a", "r", "k", "e", "r", "\"", ">", "<", "/", "i", ">">>>>,
    <<<<"b", "a", "c", "k", "g", "r", "o", "u", "n", "d", ".", "t", "i", "t", "l", "e">>,
      <<"<", "i", " ", "c", "l", "a", "s", "s", "=", "\"", "f", "a", " ", "f", "a", "-", "r", "o", "a", "d", "\"", ">", "<", "/", "i", ">">>>>,
    <<<<"p", "r", "o", "j", "e", "c", "t", "s", ".", "s", "u", "b", "t", "i", "t", "l", "e">>,
      <<"<", "i", " ", "c", "l", "a", "s", "s", "=", "\"", "f", "a", " ", "f", "a", "-", "c", "u", "b", "e", "s", "\"", ">", "<", "/", "i", ">">>>>,
    <<<<"p", "r", "o", "j", "e", "c", "t", "s", ".", "t", "i", "t", "l", "e">>,
      <<"<", "i", " ", "c", "l", "a", "s", "s", "=", "\"", "f", "a", " ", "f", "a", "-", "c", "u", "b", "e", "s", "\"", ">", "<", "/", "i", ">">>>>,
    <<<<"p", "e", "o", "p", "l", "e", ".", "s", "u", "b", "t", "i", "t", "l", "e">>,
      <<"<", "i", " ", "c", "l", "a", "s", "s", "=", "\"", "f", "a", " ", "f", "a", "-", "u", "s", "e", "r", "s", "\"", ">", "<", "/", "i", ">">>>>,
    <<<<"p", "e", "o", "p", "l", "e", ".", "t", "i", "t", "l", "e">>,
      <<"<", "i", " ", "c", "l", "a", "s", "s", "=", "\"", "f", "a", " ", "f", "a", "-", "u", "s", "e", "r", "s", "\"", ">", "<", "/", "i", ">">>>>,
    <<<<"a", "b", "o", "u", "t", ".", "s", "u", "b", "t", "i", "t", "l", "e">>,
      <<"<", "i", " ", "c", "l", "a", "s", "s", "=", "\"", "f", "a", " ", "f", "a", "-", "u", "s", "e", "r", "\"", ">", "<", "/", "i", ">">>>>,
    <<<<"a", "b", "o", "u", "t", ".", "t", "i", "t", "l", "e">>,
      <<"<", "i", " ", "c", "l", "a", "s", "s", "=", "\"", "f", "a", " ", "f", "a", "-", "u", "s", "e", "r", "\"", ">", "<", "/", "i", ">">>>>,
    <<<<"h", "e", "r", "o", ".", "p", "i", "l", "l", "a", "r", "s", "L", "a", "b", "e", "l">>,
      <<"<", "i", " ", "c", "l", "a", "s", "s", "=", "\"", "f", "a", " ", "f", "a", "-", "t", "h", "-", "l", "i", "s", "t", "\"", ">", "<", "/", "i", ">">>>>>>

\* add_more_icons.py lines 67-116: the icons written in the statements
Icon ==
  [calendar |->
     <<"<", "i", " ", "c", "l", "a", "s", "s", "=", "'", "f", "a", " ", "f", "a", "-", "c", "a", "l", "e", "n", "d", "a", "r", "'", ">", "<", "/", "i", ">">>,
   building |->
     <<"<", "i", " ", "c", "l", "a", "s", "s", "=", "'", "f", "a", " ", "f", "a", "-", "b", "u", "i", "l", "d", "i", "n", "g", "-", "o", "'", ">", "<", "/", "i", ">">>,
   university |->
     <<"<", "i", " ", "c", "l", "a", "s", "s", "=", "'", "f", "a", " ", "f", "a", "-", "u", "n", "i", "v", "e", "r", "s", "i", "t", "y", "'", ">", "<", "/", "i", ">">>,
   cube |->
     <<"<", "i", " ", "c", "l", "a", "s", "s", "=", "\"", "f", "a", " ", "f", "a", "-", "c", "u", "b", "e", "\"", ">", "<", "/", "i", ">">>,
   check_circle |->
     <<"<", "i", " ", "c", "l", "a", "s", "s", "=", "\"", "f", "a", " ", "f", "a", "-", "c", "h", "e", "c", "k", "-", "c", "i", "r", "c", "l", "e", "\"", ">", "<", "/", "i", ">">>,
   desktop |->
     <<"<", "i", " ", "c", "l", "a", "s", "s", "=", "\"", "f", "a", " ", "f", "a", "-", "d", "e", "s", "k", "t", "o", "p", "\"", ">", "<", "/", "i", ">">>,
   wrench |->
     <<"<", "i", " ", "c", "l", "a", "s", "s", "=", "\"", "f", "a", " ", "f", "a", "-", "w", "r", "e", "n", "c", "h", "\"", ">", "<", "/", "i", ">">>,
   user |->
     <<"<", "i", " ", "c", "l", "a", "s", "s", "=", "'", "f", "a", " ", "f", "a", "-", "u", "s", "e", "r", "'", ">", "<", "/", "i", ">">>,
   book |->
     <<"<", "i", " ", "c", "l", "a", "s", "s", "=", "'", "f", "a", " ", "f", "a", "-", "b", "o", "o", "k", "'", ">", "<", "/", "i", ">">>]

\* the keys and the type names the scripts look up, as texts
Key ==
  [evidence_card |-> <<"e", "v", "i", "d", "e", "n", "c", "e", "_", "c", "a", "r", "d">>,
   demo |-> <<"d", "e", "m", "o">>,
   tool |-> <<"t", "o", "o", "l">>,
   en |-> <<"e", "n">>,
   it |-> <<"i", "t">>,
   i18n |-> <<"i", "1", "8", "n">>,
   hero |-> <<"h", "e", "r", "o">>,
   bullets |-> <<"b", "u", "l", "l", "e", "t", "s">>,
   about |-> <<"a", "b", "o", "u", "t">>,
   boundary_rules |-> <<"b", "o", "u", "n", "d", "a", "r", "y", "_", "r", "u", "l", "e", "s">>,
   focus_now |-> <<"f", "o", "c", "u", "s", "_", "n", "o", "w">>,
   items |-> <<"i", "t", "e", "m", "s">>,
   title |-> <<"t", "i", "t", "l", "e">>,
   collaboration_modes |-> <<"c", "o", "l", "l", "a", "b", "o", "r", "a", "t", "i", "o", "n", "_", "m", "o", "d", "e", "s">>,
   background |-> <<"b", "a", "c", "k", "g", "r", "o", "u", "n", "d">>,
   period |-> <<"p", "e", "r", "i", "o", "d">>,
   organization |-> <<"o", "r", "g", "a", "n", "i", "z", "a", "t", "i", "o", "n">>,
   education |-> <<"e", "d", "u", "c", "a", "t", "i", "o", "n">>,
   year |-> <<"y", "e", "a", "r">>,
   institution |-> <<"i", "n", "s", "t", "i", "t", "u", "t", "i", "o", "n">>,
   projects |-> <<"p", "r", "o", "j", "e", "c", "t", "s">>,
   categories |-> <<"c", "a", "t", "e", "g", "o", "r", "i", "e", "s">>,
   label |-> <<"l", "a", "b", "e", "l">>,
   type |-> <<"t", "y", "p", "e">>,
   people |-> <<"p", "e", "o", "p", "l", "e">>,
   name |-> <<"n", "a", "m", "e">>,
   reading |-> <<"r", "e", "a", "d", "i", "n", "g">>]

\* replace_icons.py lines 5-25, in insertion order; a character outside ASCII is
\* written as its code point
ICON_MAP ==
  <<<<<<"U+1F4D1">>, <<"<", "i", " ", "c", "l", "a", "s", "s", "=", "\"", "f", "a", " ", "f", "a", "-", "l", "i", "s", "t", "-", "a", "l", "t", "\"", ">", "<", "/", "i", ">">>>>,
    <<<<"U+1F4DD">>, <<"<", "i", " ", "c", "l", "a", "s", "s", "=", "\"", "f", "a", " ", "f", "a", "-", "f", "i", "l", "e", "-", "t", "e", "x", "t", "-", "o", "\"", ">", "<", "/", "i", ">">>>>,
    <<<<"U+2705">>, <<"<", "i", " ", "c", "l", "a", "s", "s", "=", "\"", "f", "a", " ", "f", "a", "-", "c", "h", "e", "c", "k", "-", "s", "q", "u", "a", "r", "e", "-", "o", "\"", ">", "<", "/", "i", ">">>>>,
    <<<<"U+1F3AF">>, <<"<", "i", " ", "c", "l", "a", "s", "s", "=", "\"", "f", "a", " ", "f", "a", "-", "b", "u", "l", "l", "s", "e", "y", "e", "\"", ">", "<", "/", "i", ">">>>>,
    <<<<"U+1F91D">>, <<"<", "i", " ", "c", "l", "a", "s", "s", "=", "\"", "f", "a", " ", "f", "a", "-", "h", "a", "n", "d", "s", "h", "a", "k", "e", "-", "o", "\"", ">", "<", "/", "i", ">">>>>,
    <<<<"U+1F52C">>, <<"<", "i", " ", "c", "l", "a", "s", "s", "=", "\"", "f", "a", " ", "f", "a", "-", "f", "l", "a", "s", "k", "\"", ">", "<", "/", "i", ">">>>>,
    <<<<"U+1F4BC">>, <<"<", "i", " ", "c", "l", "a", "s", "s", "=", "\"", "f", "a", " ", "f", "a", "-", "b", "r", "i", "e", "f", "c", "a", "s", "e", "\"", ">", "<", "/", "i", ">">>>>,
    <<<<"U+1F6E0", "U+FE0F">>, <<"<", "i", " ", "c", "l", "a", "s", "s", "=", "\"", "f", "a", " ", "f", "a", "-", "w", "r", "e", "n", "c", "h", "\"", ">", "<", "/", "i", ">">>>>,
    <<<<"U+1F680">>, <<"<", "i", " ", "c", "l", "a", "s", "s", "=", "\"", "f", "a", " ", "f", "a", "-", "r", "o", "c", "k", "e", "t", "\"", ">", "<", "/", "i", ">">>>>,
    <<<<"U+1F310">>, <<"<", "i", " ", "c", "l", "a", "s", "s", "=", "\"", "f", "a", " ", "f", "a", "-", "g", "l", "o", "b", "e", "\"", ">", "<", "/", "i", ">">>>>,
    <<<<"U+1F4CD">>, <<"<", "i", " ", "c", "l", "a", "s", "s", "=", "\"", "f", "a", " ", "f", "a", "-", "m", "a", "p", "-", "m", "a", "r", "k", "e", "r", "\"", ">", "<", "/", "i", ">">>>>,
    <<<<"U+1F393">>, <<"<", "i", " ", "c", "l", "a", "s", "s", "=", "\"", "f", "a", " ", "f", "a", "-", "g", "r", "a", "d", "u", "a", "t", "i", "o", "n", "-", "c", "a", "p", "\"", ">", "<", "/", "i", ">">>>>,
    <<<<"U+1F4E6">>, <<"<", "i", " ", "c", "l", "a", "s", "s", "=", "\"", "f", "a", " ", "f", "a", "-", "a", "r", "c", "h", "i", "v", "e", "\"", ">", "<", "/", "i", ">">>>>,
    <<<<"U+1F4A1">>, <<"<", "i", " ", "c", "l", "a", "s", "s", "=", "\"", "f", "a", " ", "f", "a", "-", "l", "i", "g", "h", "t", "b", "u", "l", "b", "-", "o", "\"", ">", "<", "/", "i", ">">>>>,
    <<<<"U+1F465">>, <<"<", "i", " ", "c", "l", "a", "s", "s", "=", "\"", "f", "a", " ", "f", "a", "-", "u", "s", "e", "r", "s", "\"", ">", "<", "/", "i", ">">>>>,
    <<<<"U+1F4DA">>, <<"<", "i", " ", "c", "l", "a", "s", "s", "=", "\"", "f", "a", " ", "f", "a", "-", "b", "o", "o", "k", "\"", ">", "<", "/", "i", ">">>>>,
    <<<<"U+1F4D6">>, <<"<", "i", " ", "c", "l", "a", "s", "s", "=", "\"", "f", "a", " ", "f", "a", "-", "b", "o", "o", "k", "\"", ">", "<", "/", "i", ">">>>>,
    <<<<"U+1F4E7">>, <<"<", "i", " ", "c", "l", "a", "s", "s", "=", "\"", "f", "a", " ", "f", "a", "-", "e", "n", "v", "e", "l", "o", "p", "e", "-", "o", "\"", ">", "<", "/", "i", ">">>>>,
    <<<<"U+1F9E0">>, <<"<", "i", " ", "c", "l", "a", "s", "s", "=", "\"", "f", "a", " ", "f", "a", "-", "b", "r", "a", "i", "n", "\"", ">", "<", "/", "i", ">">>>>>>

(***************************************************************************)
(* The patching scripts add_hero_icons.py, add_more_icons.py and           *)
(* replace_icons.py.  Each reads profile.json, changes the document in     *)
(* memory and writes it back with json.dump; an exception before the write  *)
(* leaves the file as it was.  json.dump followed by json.load gives back   *)
(* the same dicts, lists, strings and numbers, so the file is modelled by   *)
(* the JSON value it holds.  A raised exception is marked by the value      *)
(* AttributeError in the place where it was raised.                         *)
(***************************************************************************)
\* no text taken to start with the prefix
startswith_never(chars, prefix) == FALSE

\* str.startswith(prefix)
startswith(chars, prefix) ==
  Len(chars) >= Len(prefix) /\ SubSeq(chars, 1, Len(prefix)) = prefix

\* if key in d: d[key] = v, where v is written in terms of d[key].  On a
\* value that is not a dict, a list or a str answers the membership test and,
\* when it holds the key, refuses the subscript d[key] (TypeError); any other
\* value refuses the membership test.
At(d, kc, v) ==
  IF IsDict(d)
  THEN (IF HasKey(d, Text(kc)) THEN Obj([d.f EXCEPT ![Text(kc)] = v]) ELSE d)
  ELSE IF IsList(d)
  THEN (IF \E i \in 1..Len(d.a) : d.a[i] = Str(kc) THEN AttributeError ELSE d)
  ELSE IF IsStr(d)
  THEN (IF Contains(d.s, kc) THEN AttributeError ELSE d)
  ELSE AttributeError

\* if key in d [and isinstance(d[key], str)] and not d[key].startswith('<i'):
\*     d[key] = f"{icon} {d[key]}"
\* where the isinstance test is absent, .startswith raises on a value that is
\* not a str
PrefixAt(d, kc, ic, typeTested) ==
  LET x == d.f[Text(kc)] IN
  At(d, kc,
     IF IsStr(x)
     THEN (IF startswith(x.s, <<"<", "i">>) THEN x ELSE Str(ic \o <<" ">> \o x.s))
     ELSE IF typeTested THEN x
     ELSE AttributeError)

\* the "en" and the "it" text of a localized object, no isinstance test
PrefixBoth(d, ic) == PrefixAt(PrefixAt(d, Key.en, ic, FALSE), Key.it, ic, FALSE)

\* a table of <<key, icon>> applied to i18n = data['i18n'][lang]
RECURSIVE PrefixTable(_, _, _)
PrefixTable(i18n, table, typeTested) ==
  IF table = <<>> THEN i18n
  ELSE PrefixTable(PrefixAt(i18n, Head(table)[1], Head(table)[2], typeTested),
                   Tail(table), typeTested)

\* if 'i18n' in data: for lang in ['en', 'it']: if lang in data['i18n']: ...
I18nPass(d, table, typeTested) ==
  LET m == d.f["i18n"]
      en == At(m, Key.en, PrefixTable(m.f["en"], table, typeTested))
  IN At(d, Key.i18n, At(en, Key.it, PrefixTable(en.f["it"], table, typeTested)))

\* for x in v: ..., where items is the list after the loop.  A str yields its
\* characters and a dict its keys, none of them a dict, so a loop whose body
\* starts with isinstance(x, dict) leaves them alone; a value that cannot be
\* iterated raises TypeError.
Loop(v, items) ==
  IF IsList(v) THEN Arr(items)
  ELSE IF IsStr(v) \/ IsDict(v) THEN v
  ELSE AttributeError

\* for i, x in enumerate(v):
\*     if i < len(icons) and isinstance(x, dict): the "en" and "it" of x
EnumerateBoth(v, table) ==
  Loop(v, [i \in 1..Len(v.a) |->
            IF i - 1 < Len(table) /\ IsDict(v.a[i]) THEN PrefixBoth(v.a[i], table[i])
            ELSE v.a[i]])

\* lines 38-43 and 54-59 of add_more_icons.py:
\* for i, x in enumerate(v):
\*     if i < len(icons) and isinstance(x, dict) and 'title' in x:
\*         if isinstance(x['title'], dict): the "en" and "it" of x['title']
EnumerateTitles(v, table) ==
  Loop(v, [i \in 1..Len(v.a) |->
            IF i - 1 < Len(table) /\ IsDict(v.a[i])
            THEN LET title == v.a[i].f["title"] IN
                 At(v.a[i], Key.title,
                    IF IsDict(title) THEN PrefixBoth(title, table[i]) ELSE title)
            ELSE v.a[i]])

\* does a value hold the mark of a raised exception
RECURSIVE ContainsExc(_)
ContainsExc(v) ==
  \/ IsExc(v)
  \/ IsList(v) /\ \E i \in 1..Len(v.a) : ContainsExc(v.a[i])
  \/ IsDict(v) /\ \E k \in DOMAIN v.f : ContainsExc(v.f[k])

\* ---- add_hero_icons.py ----
\* lines 8-21
HeroBullets(d) ==
  LET hero == d.f["hero"] IN
  At(d, Key.hero,
     At(hero, Key.bullets, EnumerateBoth(hero.f["bullets"], bullet_icons)))

\* lines 7-99: the file after a run, rewritten, or untouched after an
\* exception.  A root that is not a dict is written back as it was: a list
\* answers every membership test with False unless it holds the key, and
\* then, as any other value, raises before the write.
add_hero_icons(d) ==
  LET patched ==
        I18nPass(I18nPass(I18nPass(I18nPass(HeroBullets(d),
          hero_labels, FALSE), epistemic_mappings, TRUE), nav_icons, TRUE),
          lead_keys, TRUE)
  IN IF ~IsDict(d) \/ ContainsExc(patched) THEN d ELSE patched

\* ---- add_more_icons.py ----
\* lines 11-19
BoundaryRules(d) ==
  LET about == d.f["about"] IN
  At(d, Key.about,
     At(about, Key.boundary_rules, EnumerateBoth(about.f["boundary_rules"], icons)))

\* lines 30-43
FocusNow(d) ==
  LET focus == d.f["focus_now"] IN
  At(d, Key.focus_now,
     At(focus, Key.items, EnumerateTitles(focus.f["items"], focus_icons)))

\* lines 46-59
CollaborationModes(d) ==
  At(d, Key.collaboration_modes,
     EnumerateTitles(d.f["collaboration_modes"], collab_icons))

\* lines 64-73
BackgroundEntry(entry) ==
  LET dated == PrefixAt(entry, Key.period, Icon.calendar, TRUE)
      org == dated.f["organization"]
  IN At(dated, Key.organization,
        IF IsDict(org) THEN PrefixBoth(org, Icon.building) ELSE org)

\* lines 62-73
Background(d) ==
  LET v == d.f["background"] IN
  At(d, Key.background,
     IF ~IsList(v) THEN v
     ELSE Loop(v, [i \in 1..Len(v.a) |->
                    IF IsDict(v.a[i]) THEN BackgroundEntry(v.a[i]) ELSE v.a[i]]))

\* lines 76-84
Education(d) ==
  LET v == d.f["education"] IN
  At(d, Key.education,
     IF ~IsList(v) THEN v
     ELSE Loop(v, [i \in 1..Len(v.a) |->
                    IF IsDict(v.a[i])
                    THEN PrefixAt(PrefixAt(v.a[i], Key.year, Icon.calendar, TRUE),
                                  Key.institution, Icon.university, TRUE)
                    ELSE v.a[i]]))

\* lines 93-100
ProjectIcon(project) ==
  IF ~HasKey(project, "type") THEN Icon.cube
  ELSE IF project.f["type"] = Str(Key.evidence_card) THEN Icon.check_circle
  ELSE IF project.f["type"] = Str(Key.demo) THEN Icon.desktop
  ELSE IF project.f["type"] = Str(Key.tool) THEN Icon.wrench
  ELSE Icon.cube

\* lines 89-103
ProjectCategory(category) ==
  LET items == category.f["items"] IN
  At(category, Key.items,
     Loop(items, [i \in 1..Len(items.a) |->
                   IF IsDict(items.a[i])
                   THEN PrefixAt(items.a[i], Key.label, ProjectIcon(items.a[i]), FALSE)
                   ELSE items.a[i]]))

\* lines 87-103
ProjectCategories(d) ==
  LET projects == d.f["projects"]
      categories == projects.f["categories"]
  IN At(d, Key.projects,
        At(projects, Key.categories,
           Loop(categories, [i \in 1..Len(categories.a) |->
                              IF IsDict(categories.a[i])
                              THEN ProjectCategory(categories.a[i])
                              ELSE categories.a[i]])))

\* lines 106-109
People(d) ==
  LET people == d.f["people"] IN
  At(d, Key.people,
     Loop(people, [i \in 1..Len(people.a) |->
                    IF IsDict(people.a[i])
                    THEN PrefixAt(people.a[i], Key.name, Icon.user, FALSE)
                    ELSE people.a[i]]))

\* lines 112-116
Reading(d) ==
  LET v == d.f["reading"] IN
  At(d, Key.reading,
     IF ~IsList(v) THEN v
     ELSE Loop(v, [i \in 1..Len(v.a) |->
                    IF IsDict(v.a[i]) THEN PrefixAt(v.a[i], Key.title, Icon.book, TRUE)
                    ELSE v.a[i]]))

\* lines 11-149, with the note of add_hero_icons on exceptions and on a root
\* that is not a dict
add_more_icons(d) ==
  LET patched ==
        I18nPass(Reading(People(ProjectCategories(Education(Background(
          CollaborationModes(FocusNow(BoundaryRules(d)))))))),
          icon_mappings, TRUE)
  IN IF ~IsDict(d) \/ ContainsExc(patched) THEN d ELSE patched

\* ---- replace_icons.py ----
\* str.replace(old, new): the occurrences of old from the left, not
\* overlapping
RECURSIVE replace(_, _, _)
replace(chars, old, new) ==
  LET starts == {i \in 1..(Len(chars) - Len(old) + 1) :
                   SubSeq(chars, i, i + Len(old) - 1) = old}
  IN IF starts = {} THEN chars
     ELSE LET first == CHOOSE i \in starts : \A j \in starts : i <= j
          IN SubSeq(chars, 1, first - 1) \o new
               \o replace(SubSeq(chars, first + Len(old), Len(chars)), old, new)

\* lines 32-35: the loop over ICON_MAP.items()
RECURSIVE ReplaceAll(_, _)
ReplaceAll(chars, table) ==
  IF table = <<>> THEN chars
  ELSE ReplaceAll(replace(chars, Head(table)[1], Head(table)[2]), Tail(table))

\* lines 27-35
replace_emoji_in_text(text) ==
  IF ~IsStr(text) THEN text ELSE Str(ReplaceAll(text.s, ICON_MAP))

\* lines 37-46
RECURSIVE process_value(_)
process_value(v) ==
  IF IsStr(v) THEN replace_emoji_in_text(v)
  ELSE IF IsDict(v) THEN Obj([k \in DOMAIN v.f |-> process_value(v.f[k])])
  ELSE IF IsList(v) THEN Arr([i \in 1..Len(v.a) |-> process_value(v.a[i])])
  ELSE v

(***************************************************************************)
(* The documents the scripts are run on, and each script run again on the  *)
(* file it has written.                                                     *)
(***************************************************************************)
MaxHeroBullets == 5
MaxTextLen == 3
MaxPasses == 2
MaxEntries == 2

\* the documents a script is run on
IconDocuments(script) ==
  LET
      tPlain == <<"A">>
      tTagged == <<"<", "i", ">", "A">>
      tImg == <<"<", "i", "m", "g", ">">>
      tLess == <<"<">>

      \* what a text position can hold
      TextValues == {Str(tPlain), Str(tTagged), Str(tImg), Str(tLess), Str(<<>>), Num(1)}
      FewTexts == {Str(tPlain), Str(tTagged), Num(1)}

      \* {"en": ..., "it": ...} over every subset of the two languages
      LocalizedOver(values) == {Obj(m) : m \in MapsOver({"en", "it"}, values)}

      \* a value where a list or a dict is looked for
      Misfits == {None, Num(1), Str(tPlain), EmptyObj, Arr(<<>>)}

      \* lists of localized objects: every list of a few kinds of element up to the
      \* bound, and every kind of element alone
      FewBullets == {Obj("en" :> Str(tPlain) @@ "it" :> Str(tPlain)),
                     Obj("en" :> Str(tTagged)), Str(tPlain)}
      BulletLists ==
        {Arr(q) : q \in SeqsUpTo(FewBullets, MaxHeroBullets)}
          \cup {Arr(<<b>>) : b \in LocalizedOver(TextValues)}
          \cup {Arr(<<Obj("en" :> Str(tPlain)), b>>) : b \in LocalizedOver(FewTexts)}

      \* the keys of a table
      KeysOf(table) == {Text(table[i][1]) : i \in 1..Len(table)}

      \* data['i18n'] with one key of a table in one language or in both
      I18nOver(table) ==
        {Obj(lang :> Obj(key :> v)) :
           lang \in {"en", "it"}, key \in KeysOf(table), v \in FewTexts}
          \cup {Obj("en" :> Obj(key :> v) @@ "it" :> Obj(key :> w)) :
                  key \in KeysOf(table), v \in FewTexts, w \in FewTexts}

      I18nMisfits ==
        Misfits \cup {Obj("en" :> x) : x \in Misfits}
                \cup {Arr(<<Str(Key.en)>>), Obj("en" :> Arr(<<Str(hero_labels[1][1])>>)),
                      Obj("en" :> Str(nav_icons[1][1]))}

      HeroValues ==
        {Obj("bullets" :> l) : l \in BulletLists \cup Misfits}
          \cup Misfits \cup {Arr(<<Str(Key.bullets)>>)}

      HeroI18n ==
        I18nOver(hero_labels) \cup I18nOver(epistemic_mappings)
          \cup I18nOver(nav_icons) \cup I18nOver(lead_keys) \cup I18nMisfits

      HeroDocuments ==
        {Obj("hero" :> h) : h \in HeroValues}
          \cup {Obj("i18n" :> m) : m \in HeroI18n}
          \cup {Obj("hero" :> Obj("bullets" :> Arr(<<b>>)) @@ "i18n" :> m) :
                  b \in FewBullets, m \in I18nOver(lead_keys)}
          \cup {None, Arr(<<>>), Arr(<<Str(Key.hero)>>), EmptyObj}

      \* ---- add_more_icons.py ----
      Titled == {Obj("title" :> t) : t \in LocalizedOver(FewTexts) \cup FewTexts}
      TitledLists ==
        {Arr(q) : q \in SeqsUpTo({Obj("title" :> Obj("en" :> Str(tPlain))), Num(1)},
                                 MaxHeroBullets)}
          \cup {Arr(<<x>>) : x \in Titled}

      BackgroundEntries ==
        {Obj("period" :> p) : p \in TextValues}
          \cup {Obj("organization" :> o) : o \in LocalizedOver(FewTexts) \cup FewTexts}
          \cup {Obj("period" :> Str(tPlain) @@ "organization" :> Obj("it" :> Str(tPlain)))}

      EducationEntries ==
        {Obj("year" :> y) : y \in TextValues}
          \cup {Obj("institution" :> y) : y \in TextValues}
          \cup {Obj("year" :> Str(tPlain) @@ "institution" :> Str(tPlain))}

      ProjectTypes == {Str(Key.evidence_card), Str(Key.demo), Str(Key.tool), Str(tPlain), Num(1)}
      ProjectItems ==
        {Obj("label" :> l) : l \in TextValues}
          \cup {Obj("label" :> l @@ "type" :> y) : l \in FewTexts, y \in ProjectTypes}
          \cup {Obj("type" :> Str(Key.demo)), Num(1)}

      ProjectCategoryValues ==
        {Obj("items" :> Arr(<<p>>)) : p \in ProjectItems}
          \cup {Obj("items" :> x) : x \in Misfits}
          \cup {EmptyObj, Num(1)}

      ProjectsValues ==
        {Obj("categories" :> Arr(<<c>>)) : c \in ProjectCategoryValues}
          \cup {Obj("categories" :> x) : x \in Misfits}
          \cup Misfits \cup {Arr(<<Str(Key.categories)>>)}

      PeopleEntries == {Obj("name" :> n) : n \in TextValues} \cup {EmptyObj, Num(1)}
      ReadingEntries == {Obj("title" :> t) : t \in TextValues} \cup {EmptyObj, Num(1)}

      \* every list of entries up to the bound
      ShortLists(entries) == {Arr(q) : q \in SeqsUpTo(entries, MaxEntries)}

      MoreDocuments ==
        {Obj("about" :> a) :
           a \in {Obj("boundary_rules" :> l) : l \in BulletLists \cup Misfits}
                   \cup Misfits \cup {Arr(<<Str(Key.boundary_rules)>>)}}
          \cup {Obj("focus_now" :> a) :
                  a \in {Obj("items" :> l) : l \in TitledLists \cup Misfits} \cup Misfits}
          \cup {Obj("collaboration_modes" :> l) : l \in TitledLists \cup Misfits}
          \cup {Obj("background" :> l) : l \in ShortLists(BackgroundEntries) \cup Misfits}
          \cup {Obj("education" :> l) : l \in ShortLists(EducationEntries) \cup Misfits}
          \cup {Obj("projects" :> p) : p \in ProjectsValues}
          \cup {Obj("people" :> l) : l \in ShortLists(PeopleEntries) \cup Misfits}
          \cup {Obj("reading" :> l) : l \in ShortLists(ReadingEntries) \cup Misfits}
          \cup {Obj("i18n" :> m) : m \in I18nOver(icon_mappings) \cup I18nMisfits}
          \cup {Obj("reading" :> Arr(<<r>>) @@ "people" :> Arr(<<p>>)
                    @@ "education" :> Arr(<<e>>)) :
                  r \in {Obj("title" :> Str(tPlain))}, p \in PeopleEntries,
                  e \in {Obj("year" :> Str(tPlain)), Obj("year" :> Str(tTagged))}}
          \cup {None, Arr(<<>>), EmptyObj}

      \* ---- replace_icons.py ----
      \* one plain character, three emoji of ICON_MAP (the tools emoji takes two
      \* code points, the second a variation selector) and one emoji outside it
      Alphabet == {"A", ICON_MAP[1][1][1], ICON_MAP[8][1][1], ICON_MAP[8][1][2], "U+1F600"}
      EmojiTexts == {Str(q) : q \in SeqsUpTo(Alphabet, MaxTextLen)}

      ReplaceDocuments ==
        EmojiTexts
          \cup {Arr(<<t, Num(1)>>) : t \in EmojiTexts}
          \cup {Obj("title" :> t @@ "n" :> None) : t \in EmojiTexts}
          \cup {Obj(ICON_MAP[1][1][1] :> Arr(<<Obj("en" :> t), Bool(TRUE)>>)) : t \in EmojiTexts}
          \cup {None, Num(1), Arr(<<>>), EmptyObj}
  IN IF script = "add_hero_icons" THEN HeroDocuments
     ELSE IF script = "add_more_icons" THEN MoreDocuments
     ELSE ReplaceDocuments

InitIcons ==
  /\ MainIdle
  /\ pc = "script"
  /\ tool \in {"add_hero_icons", "add_more_icons", "replace_icons"}
  /\ disk \in IconDocuments(tool)
  /\ diskOrig = disk
  /\ diskPrev = disk
  /\ passes = 0
  /\ locArg = None
  /\ locRet = FALSE

\* one run of a script on the file: read, patch, write
Run(script, patched) ==
  /\ pc = "script"
  /\ tool = script
  /\ passes < MaxPasses
  /\ disk' = patched
  /\ diskPrev' = disk
  /\ passes' = passes + 1
  /\ UNCHANGED <<pc, file, raw, profile, errors, exitCode, failure, validateCalls,
                 tool, diskOrig, locArg, locRet>>

AddHeroIcons == Run("add_hero_icons", add_hero_icons(disk))
AddMoreIcons == Run("add_more_icons", add_more_icons(disk))
ReplaceIcons == Run("replace_icons", process_value(disk))

NextIcons == AddHeroIcons \/ AddMoreIcons \/ ReplaceIcons

SpecIcons == InitIcons /\ [][NextIcons]_vars

StartsWithTag(chars) == Len(chars) >= 2 /\ chars[1] = "<" /\ chars[2] = "i"

\* b has the structure of a: the same keys, the same list lengths, the same
\* values that are not strings, a string where a has a string; with tagsKept,
\* a string of a that starts with an icon tag is the same string in b
RECURSIVE Preserved(_, _, _)
Preserved(a, b, tagsKept) ==
  IF IsStr(a) THEN IsStr(b) /\ ((tagsKept /\ StartsWithTag(a.s)) => b = a)
  ELSE IF IsDict(a)
  THEN IsDict(b) /\ DOMAIN b.f = DOMAIN a.f
       /\ \A k \in DOMAIN a.f : Preserved(a.f[k], b.f[k], tagsKept)
  ELSE IF IsList(a)
  THEN IsList(b) /\ Len(b.a) = Len(a.a)
       /\ \A i \in 1..Len(a.a) : Preserved(a.a[i], b.a[i], tagsKept)
  ELSE b = a

\* C15: a second run of add_hero_icons, of add_more_icons or of replace_icons
\* on the document leaves it as the first run wrote it; the prefixing runs
\* leave a text that already starts with an icon tag unchanged, and every run
\* keeps the keys, the list lengths and the values that are not strings
C15_Idempotent ==
  /\ passes >= 2 => disk = diskPrev
  /\ (pc = "script" /\ passes >= 1) => Preserved(diskOrig, disk, tool # "replace_icons")

\* a run of add_hero_icons that prefixed a text, followed by a second run
C15_Witness ==
  /\ tool = "add_hero_icons"
  /\ passes = 2
  /\ disk # diskOrig
  /\ disk = diskPrev

====
